---- MODULE Spec2Model ----
(***************************************************************************)
(* A model of the copy-paste WebRTC application: one browser page with its *)
(* ConnectionController, WebRTCService, SignalingService, QRCodeService    *)
(* and store, driven by the user, by timers and by the events of the       *)
(* browser's RTCPeerConnection objects.  The remote peer and the network   *)
(* are the environment.                                                    *)
(*                                                                         *)
(* Strings are sequences of character codes, so that JSON.stringify, btoa, *)
(* atob and JSON.parse are computed character by character.                *)
(***************************************************************************)
EXTENDS Integers, Sequences, FiniteSets, TLC

\* ------------------------------------------------------------------------
\* Strings
\* ------------------------------------------------------------------------

\* "type", "sdp", "offer", "answer" as character codes
S_type == <<116, 121, 112, 101>>
S_sdp == <<115, 100, 112>>
S_offer == <<111, 102, 102, 101, 114>>
S_answer == <<97, 110, 115, 119, 101, 114>>
\* "http"
S_http == <<104, 116, 116, 112>>
\* window.location.origin + window.location.pathname of the page: "http://a/"
S_page == <<104, 116, 116, 112, 58, 47, 47, 97, 47>>

StartsWith(s, p) == Len(s) >= Len(p) /\ SubSeq(s, 1, Len(p)) = p

\* index of the first occurrence of character c in s, 0 when there is none
RECURSIVE IndexFrom(_, _, _)
IndexFrom(s, c, i) ==
  IF i > Len(s) THEN 0
  ELSE IF s[i] = c THEN i
  ELSE IndexFrom(s, c, i + 1)

IndexOf(s, c) == IndexFrom(s, c, 1)

Tail2(s, i) == IF i > Len(s) THEN <<>> ELSE SubSeq(s, i, Len(s))

\* ------------------------------------------------------------------------
\* JSON.stringify of an object whose members are strings
\* ------------------------------------------------------------------------

HexDigit(n) == IF n < 10 THEN 48 + n ELSE 87 + n

\* JSON.stringify's escape of one character of a string
EscapeChar(c) ==
  IF c = 34 THEN <<92, 34>>
  ELSE IF c = 92 THEN <<92, 92>>
  ELSE IF c = 8 THEN <<92, 98>>
  ELSE IF c = 9 THEN <<92, 116>>
  ELSE IF c = 10 THEN <<92, 110>>
  ELSE IF c = 12 THEN <<92, 102>>
  ELSE IF c = 13 THEN <<92, 114>>
  ELSE IF c < 32 THEN <<92, 117, 48, 48, HexDigit(c \div 16), HexDigit(c % 16)>>
  ELSE <<c>>

RECURSIVE EscapeString(_)
EscapeString(s) ==
  IF s = <<>> THEN <<>> ELSE EscapeChar(Head(s)) \o EscapeString(Tail(s))

QuoteString(s) == <<34>> \o EscapeString(s) \o <<34>>

\* JSON.stringify({type: t, sdp: s}); a member whose value is undefined is left out
Undefined == <<-1>>

JSONStringify(t, s) ==
  <<123>> \o QuoteString(S_type) \o <<58>> \o QuoteString(t)
  \o (IF s = Undefined THEN <<>>
      ELSE <<44>> \o QuoteString(S_sdp) \o <<58>> \o QuoteString(s))
  \o <<125>>

\* ------------------------------------------------------------------------
\* btoa / atob
\* ------------------------------------------------------------------------

B64Alphabet ==
  <<65, 66, 67, 68, 69, 70, 71, 72, 73, 74, 75, 76, 77, 78, 79, 80, 81, 82, 83,
    84, 85, 86, 87, 88, 89, 90, 97, 98, 99, 100, 101, 102, 103, 104, 105, 106,
    107, 108, 109, 110, 111, 112, 113, 114, 115, 116, 117, 118, 119, 120, 121,
    122, 48, 49, 50, 51, 52, 53, 54, 55, 56, 57, 43, 47>>

B64Char(v) == B64Alphabet[v + 1]

\* the value of a base64 character, -1 for a character outside the alphabet
B64Val(c) ==
  IF c >= 65 /\ c <= 90 THEN c - 65
  ELSE IF c >= 97 /\ c <= 122 THEN c - 71
  ELSE IF c >= 48 /\ c <= 57 THEN c + 4
  ELSE IF c = 43 THEN 62
  ELSE IF c = 47 THEN 63
  ELSE -1

RECURSIVE B64Encode(_)
B64Encode(b) ==
  IF Len(b) = 0 THEN <<>>
  ELSE IF Len(b) = 1 THEN
    <<B64Char(b[1] \div 4), B64Char((b[1] % 4) * 16), 61, 61>>
  ELSE IF Len(b) = 2 THEN
    <<B64Char(b[1] \div 4), B64Char((b[1] % 4) * 16 + b[2] \div 16),
      B64Char((b[2] % 16) * 4), 61>>
  ELSE
    <<B64Char(b[1] \div 4), B64Char((b[1] % 4) * 16 + b[2] \div 16),
      B64Char((b[2] % 16) * 4 + b[3] \div 64), B64Char(b[3] % 64)>>
    \o B64Encode(SubSeq(b, 4, Len(b)))

\* a thrown exception, as a value
Throw(m) == [throw |-> m]
IsThrow(v) == DOMAIN v = {"throw"}

\* btoa: InvalidCharacterError on a character outside Latin-1
Btoa(s) ==
  IF \E i \in 1..Len(s) : s[i] > 255 THEN Throw("InvalidCharacterError")
  ELSE [ok |-> B64Encode(s)]

IsAsciiWhitespace(c) == c \in {9, 10, 12, 13, 32}

RECURSIVE StripWhitespace(_)
StripWhitespace(s) ==
  IF s = <<>> THEN <<>>
  ELSE IF IsAsciiWhitespace(Head(s)) THEN StripWhitespace(Tail(s))
  ELSE <<Head(s)>> \o StripWhitespace(Tail(s))

\* forgiving-base64 decode: at most two "=" are removed from the end of data
\* whose length is a multiple of four
StripPadding(s) ==
  IF Len(s) % 4 = 0 /\ Len(s) > 0 /\ s[Len(s)] = 61 THEN
    IF s[Len(s) - 1] = 61 THEN SubSeq(s, 1, Len(s) - 2)
    ELSE SubSeq(s, 1, Len(s) - 1)
  ELSE s

RECURSIVE B64Decode(_)
B64Decode(d) ==
  IF Len(d) = 0 THEN <<>>
  ELSE IF Len(d) = 2 THEN
    <<B64Val(d[1]) * 4 + B64Val(d[2]) \div 16>>
  ELSE IF Len(d) = 3 THEN
    <<B64Val(d[1]) * 4 + B64Val(d[2]) \div 16,
      (B64Val(d[2]) % 16) * 16 + B64Val(d[3]) \div 4>>
  ELSE
    <<B64Val(d[1]) * 4 + B64Val(d[2]) \div 16,
      (B64Val(d[2]) % 16) * 16 + B64Val(d[3]) \div 4,
      (B64Val(d[3]) % 4) * 64 + B64Val(d[4])>>
    \o B64Decode(SubSeq(d, 5, Len(d)))

Atob(s) ==
  LET Decoded(d) ==
        IF Len(d) % 4 = 1 \/ \E i \in 1..Len(d) : B64Val(d[i]) < 0
        THEN Throw("InvalidCharacterError")
        ELSE [ok |-> B64Decode(d)]
  IN Decoded(StripPadding(StripWhitespace(s)))

\* ------------------------------------------------------------------------
\* JSON.parse.  A parsed value is a record: k is "str", "num", "lit" or
\* "obj", s the text of a string, number or literal, m the members of an
\* object as <<key, value>> pairs in source order.  The parser covers objects
\* whose members are strings, integers and literals; all strings the model
\* feeds to it are in that fragment or are no JSON at all.
\* ------------------------------------------------------------------------

JStr(s) == [k |-> "str", s |-> s, m |-> <<>>]
JNum(s) == [k |-> "num", s |-> s, m |-> <<>>]
JLit(s) == [k |-> "lit", s |-> s, m |-> <<>>]
JObj(m) == [k |-> "obj", s |-> <<>>, m |-> m]
JUndefined == [k |-> "undefined", s |-> <<>>, m |-> <<>>]

NoParse == [ok |-> FALSE, v |-> JUndefined, p |-> 0]

RECURSIVE SkipWs(_, _)
SkipWs(t, i) ==
  IF i <= Len(t) /\ t[i] \in {9, 10, 13, 32} THEN SkipWs(t, i + 1) ELSE i

HexVal(c) ==
  IF c >= 48 /\ c <= 57 THEN c - 48
  ELSE IF c >= 97 /\ c <= 102 THEN c - 87
  ELSE IF c >= 65 /\ c <= 70 THEN c - 55
  ELSE -1

UnescapeChar(c) ==
  IF c \in {34, 92, 47} THEN c
  ELSE IF c = 98 THEN 8
  ELSE IF c = 102 THEN 12
  ELSE IF c = 110 THEN 10
  ELSE IF c = 114 THEN 13
  ELSE IF c = 116 THEN 9
  ELSE -1

\* the characters of a string literal from position i on, after its opening quote
RECURSIVE ParseStringBody(_, _, _)
ParseStringBody(t, i, acc) ==
  IF i > Len(t) THEN NoParse
  ELSE IF t[i] = 34 THEN [ok |-> TRUE, v |-> JStr(acc), p |-> i + 1]
  ELSE IF t[i] < 32 THEN NoParse
  ELSE IF t[i] = 92 THEN
    IF i + 1 > Len(t) THEN NoParse
    ELSE IF t[i + 1] = 117 THEN
      IF i + 5 > Len(t) \/ \E j \in 2..5 : HexVal(t[i + j]) < 0 THEN NoParse
      ELSE ParseStringBody(t, i + 6,
             Append(acc, HexVal(t[i + 2]) * 4096 + HexVal(t[i + 3]) * 256
                         + HexVal(t[i + 4]) * 16 + HexVal(t[i + 5])))
    ELSE IF UnescapeChar(t[i + 1]) < 0 THEN NoParse
    ELSE ParseStringBody(t, i + 2, Append(acc, UnescapeChar(t[i + 1])))
  ELSE ParseStringBody(t, i + 1, Append(acc, t[i]))

ParseString(t, i) ==
  IF i <= Len(t) /\ t[i] = 34 THEN ParseStringBody(t, i + 1, <<>>) ELSE NoParse

RECURSIVE DigitsEnd(_, _)
DigitsEnd(t, i) ==
  IF i <= Len(t) /\ t[i] >= 48 /\ t[i] <= 57 THEN DigitsEnd(t, i + 1) ELSE i

\* an integer: -? (0 | [1-9][0-9]*)
ParseNumber(t, i) ==
  LET j == IF i <= Len(t) /\ t[i] = 45 THEN i + 1 ELSE i
      e == DigitsEnd(t, j)
  IN IF e = j \/ (t[j] = 48 /\ e > j + 1) THEN NoParse
     ELSE [ok |-> TRUE, v |-> JNum(SubSeq(t, i, e - 1)), p |-> e]

S_true == <<116, 114, 117, 101>>
S_false == <<102, 97, 108, 115, 101>>
S_null == <<110, 117, 108, 108>>

ParseLiteral(t, i) ==
  LET r == Tail2(t, i) IN
  IF StartsWith(r, S_true) THEN [ok |-> TRUE, v |-> JLit(S_true), p |-> i + 4]
  ELSE IF StartsWith(r, S_false) THEN [ok |-> TRUE, v |-> JLit(S_false), p |-> i + 5]
  ELSE IF StartsWith(r, S_null) THEN [ok |-> TRUE, v |-> JLit(S_null), p |-> i + 4]
  ELSE NoParse

ParseScalar(t, i) ==
  IF i > Len(t) THEN NoParse
  ELSE IF t[i] = 34 THEN ParseString(t, i)
  ELSE IF t[i] = 45 \/ (t[i] >= 48 /\ t[i] <= 57) THEN ParseNumber(t, i)
  ELSE ParseLiteral(t, i)

\* the members of an object from position i on (after "{" or after a ",")
RECURSIVE ParseMembers(_, _, _)
ParseMembers(t, i, acc) ==
  LET AfterMember(members, e) ==
        IF e > Len(t) THEN NoParse
        ELSE IF t[e] = 44 THEN ParseMembers(t, e + 1, members)
        ELSE IF t[e] = 125 THEN [ok |-> TRUE, v |-> JObj(members), p |-> e + 1]
        ELSE NoParse
      AfterValue(key, val) ==
        IF ~val.ok THEN NoParse
        ELSE AfterMember(Append(acc, <<key.v.s, val.v>>), SkipWs(t, val.p))
      AfterKey(key, c) ==
        IF c <= Len(t) /\ t[c] = 58
        THEN AfterValue(key, ParseScalar(t, SkipWs(t, c + 1)))
        ELSE NoParse
      Member(key) == IF key.ok THEN AfterKey(key, SkipWs(t, key.p)) ELSE NoParse
  IN Member(ParseString(t, SkipWs(t, i)))

ParseValue(t, i) ==
  LET j == SkipWs(t, i) IN
  IF j > Len(t) THEN NoParse
  ELSE IF t[j] = 123 THEN
    LET n == SkipWs(t, j + 1) IN
    IF n <= Len(t) /\ t[n] = 125 THEN [ok |-> TRUE, v |-> JObj(<<>>), p |-> n + 1]
    ELSE ParseMembers(t, j + 1, <<>>)
  ELSE ParseScalar(t, j)

JSONParse(t) ==
  LET Whole(r) == IF r.ok /\ SkipWs(t, r.p) > Len(t) THEN [ok |-> r.v]
                  ELSE Throw("SyntaxError")
  IN Whole(ParseValue(t, 1))

\* obj[key]: the value of the last member named key, undefined without one
RECURSIVE LookupFrom(_, _, _)
LookupFrom(m, key, i) ==
  IF i = 0 THEN JUndefined
  ELSE IF m[i][1] = key THEN m[i][2]
  ELSE LookupFrom(m, key, i - 1)

GetMember(v, key) == IF v.k = "obj" THEN LookupFrom(v.m, key, Len(v.m)) ELSE JUndefined

\* JavaScript truthiness of a parsed value
Truthy(v) ==
  CASE v.k = "obj" -> TRUE
    [] v.k = "str" -> v.s # <<>>
    [] v.k = "num" -> v.s \notin {<<48>>, <<45, 48>>}
    [] v.k = "lit" -> v.s = S_true
    [] OTHER -> FALSE

\* typeof v === 'object'
TypeofObject(v) == v.k = "obj" \/ (v.k = "lit" /\ v.s = S_null)

\* ------------------------------------------------------------------------
\* lib/helpers.js
\* ------------------------------------------------------------------------

\* encodeToBase64(data) for data = {type, sdp}
encodeToBase64(t, s) ==
  LET Try(r) == IF IsThrow(r) THEN Throw("Encoding failed") ELSE r
  IN Try(Btoa(JSONStringify(t, s)))

decodeFromBase64(encoded) ==
  LET Try(j) == IF IsThrow(j) THEN Throw("Decoding failed") ELSE j
      Parse(a) == IF IsThrow(a) THEN Throw("Decoding failed") ELSE Try(JSONParse(a.ok))
  IN Parse(Atob(encoded))

\* a faulty variant: the type member is required, not compared
isValidSignalData_AnyType(data, expectedType) ==
  /\ Truthy(data)
  /\ TypeofObject(data)
  /\ GetMember(data, S_type).k = "str"
  /\ GetMember(data, S_sdp).k = "str"
  /\ Len(GetMember(data, S_sdp).s) > 0

isValidSignalData(data, expectedType) ==
  /\ Truthy(data)
  /\ TypeofObject(data)
  /\ GetMember(data, S_type) = JStr(expectedType)
  /\ GetMember(data, S_sdp).k = "str"
  /\ Len(GetMember(data, S_sdp).s) > 0

IsAlpha(c) == (c >= 65 /\ c <= 90) \/ (c >= 97 /\ c <= 122)

\* the end of the scheme of an absolute URL: the position of the ":" after a
\* letter followed by letters, digits, "+", "-" or ".", 0 when there is none
RECURSIVE SchemeEnd(_, _)
SchemeEnd(s, i) ==
  IF i > Len(s) THEN 0
  ELSE IF s[i] = 58 THEN (IF i > 1 THEN i ELSE 0)
  ELSE IF IsAlpha(s[i]) \/ (i > 1 /\ ((s[i] >= 48 /\ s[i] <= 57) \/ s[i] \in {43, 45, 46}))
    THEN SchemeEnd(s, i + 1)
  ELSE 0

\* new URL(str) succeeds: str is an absolute URL (it has a scheme; an
\* http(s) URL also needs a host)
S_httpHost == <<104, 116, 116, 112, 58, 47, 47>>

isValidUrl(str) ==
  /\ SchemeEnd(str, 1) > 0
  /\ StartsWith(str, S_http) => (StartsWith(str, S_httpHost) /\ Len(str) > Len(S_httpHost))

\* new URL(url).hash, without its "#": the text after the first "#"
UrlHash(url) ==
  LET i == IndexOf(url, 35) IN IF i = 0 THEN <<>> ELSE Tail2(url, i + 1)

Null == <<-2>>

extractHashFromUrl(url) ==
  LET NonEmpty(fragment) == IF fragment = <<>> THEN Null ELSE fragment
  IN IF ~isValidUrl(url) THEN Null ELSE NonEmpty(UrlHash(url))

\* ------------------------------------------------------------------------
\* services/SignalingService.js (the codec part)
\* ------------------------------------------------------------------------

\* createOfferUrl(offerDescription), for offerDescription.sdp = sdp
createOfferUrl(sdp) ==
  LET Url(e) == IF IsThrow(e) THEN e ELSE [ok |-> S_page \o <<35>> \o e.ok]
  IN Url(encodeToBase64(S_offer, sdp))

\* createAnswerCode(answerDescription)
createAnswerCode(sdp) == encodeToBase64(S_answer, sdp)

\* a faulty variant: the decoded data is not validated
parseOffer_Unchecked(text) ==
  LET Valid(data) == IF IsThrow(data) THEN Throw("INVALID_OFFER") ELSE data
      Decode(hashData) ==
        IF hashData = Null THEN Throw("INVALID_OFFER")
        ELSE Valid(decodeFromBase64(hashData))
  IN Decode(IF isValidUrl(text) THEN extractHashFromUrl(text) ELSE text)

parseOffer(text) ==
  LET Valid(data) ==
        IF IsThrow(data) THEN Throw("INVALID_OFFER")
        ELSE IF ~isValidSignalData(data.ok, S_offer) THEN Throw("INVALID_OFFER")
        ELSE data
      Decode(hashData) ==
        IF hashData = Null THEN Throw("INVALID_OFFER")
        ELSE Valid(decodeFromBase64(hashData))
  IN Decode(IF isValidUrl(text) THEN extractHashFromUrl(text) ELSE text)

parseAnswer(encoded) ==
  LET Valid(data) ==
        IF IsThrow(data) THEN Throw("INVALID_ANSWER")
        ELSE IF ~isValidSignalData(data.ok, S_answer) THEN Throw("INVALID_ANSWER")
        ELSE data
  IN Valid(decodeFromBase64(encoded))

\* location.hash is "" or "#" followed by the fragment
hasOfferInHash(h) == Len(h) > 1

\* a faulty variant: the exception of parseOffer is not caught
getOfferFromHash_Uncaught(h) ==
  IF ~hasOfferInHash(h) THEN JLit(S_null)
  ELSE LET Passed(r) == IF IsThrow(r) THEN r ELSE r.ok
       IN Passed(parseOffer(Tail(h)))

getOfferFromHash(h) ==
  IF ~hasOfferInHash(h) THEN JLit(S_null)
  ELSE LET Caught(r) == IF IsThrow(r) THEN JLit(S_null) ELSE r.ok
       IN Caught(parseOffer(Tail(h)))

\* history.replaceState(null, '', `#${offerData}`): an empty fragment reads back as ""
setHashFromOffer(offerData) == IF offerData = <<>> THEN <<>> ELSE <<35>> \o offerData

\* history.replaceState(null, '', location.pathname)
clearHash(h) == <<>>

\* the sdp member of parsed signal data
SdpOf(data) == GetMember(data, S_sdp).s

\* ------------------------------------------------------------------------
\* services/QRCodeService.js: validateDecodedQR
\* ------------------------------------------------------------------------

\* JSON.parse(atob(decoded)).type === t, inside try/catch: any exception
\* (atob, JSON.parse, a member access on null) counts as "not valid"
DecodedTypeIs(decoded, t) ==
  LET TypeIs(j) ==
        /\ ~IsThrow(j)
        /\ ~(j.ok.k = "lit" /\ j.ok.s = S_null)
        /\ GetMember(j.ok, S_type) = JStr(t)
      Parse(a) == IF IsThrow(a) THEN a ELSE JSONParse(a.ok)
  IN TypeIs(Parse(Atob(decoded)))

validateDecodedQR(decoded, expectedContext) ==
  IF expectedContext = "offer" THEN
    IF StartsWith(decoded, S_http) THEN
      IF isValidUrl(decoded) /\ UrlHash(decoded) # <<>>
      THEN [ok |-> [type |-> "offer", data |-> UrlHash(decoded)]]
      ELSE Throw("QR_WRONG_TYPE_OFFER")
    ELSE IF DecodedTypeIs(decoded, S_offer)
      THEN [ok |-> [type |-> "offer", data |-> decoded]]
      ELSE Throw("QR_WRONG_TYPE_OFFER")
  ELSE IF expectedContext = "answer" THEN
    IF StartsWith(decoded, S_http) THEN Throw("QR_WRONG_TYPE_ANSWER")
    ELSE IF DecodedTypeIs(decoded, S_answer)
      THEN [ok |-> [type |-> "answer", data |-> decoded]]
      ELSE Throw("QR_WRONG_TYPE_OFFER")
  ELSE Throw("INVALID_QR")

\* decodeQRFromBlob: decoded is the text the image decoders found, Null when
\* no decoder found a code at any scale
decodeQRFromBlob(decoded, expectedContext) ==
  IF decoded = Null THEN Throw("INVALID_QR")
  ELSE validateDecodedQR(decoded, expectedContext)

\* ------------------------------------------------------------------------
\* State
\* ------------------------------------------------------------------------

VARIABLES
  state,   \* store.state
  svc,     \* the WebRTCService: pc, mediaPc, dataChannel, role,
           \* connectionEstablished, and whether its event map still holds
           \* the controller's handlers
  conns,   \* the RTCPeerConnection objects the page has created, by identity
  tasks,   \* the suspended async functions: where each awaits
  hash,    \* location.hash
  input,   \* the text given to the codec
  output,  \* what the codec made of it; what a handler of the UI returned
  ui,      \* store.state: micEnabled, cameraEnabled, videoMode
  media    \* the MediaService: localStream, micEnabled, cameraEnabled, and
           \* the enabled flag of the stream's audio and video tracks

vars == <<state, svc, conns, tasks, hash, input, output, ui, media>>

\* bounds of the model: connections created per page load (MaxLive of them
\* in the general specification, MaxConns in the scenario of a late offer),
\* async functions suspended at one time, distinct remote candidates, length
\* of a description
MaxConns == 3
MaxLive == 2
MaxTasks == 2
MaxCands == 2
MaxLen == 2

\* the session description the local browser creates: "v=0\r\n"
LocalSdp == <<118, 61, 48, 13, 10>>
\* the one it creates for a media connection: "m=0"
LocalMediaSdp == <<109, 61, 48>>
\* the session description in what the remote peer shares: "v=1"
RemoteSdp == <<118, 61, 49>>

\* what the user can paste, scan, or open the page with
In_offer == encodeToBase64(S_offer, RemoteSdp).ok
In_offerUrl == S_page \o <<35>> \o In_offer
In_answer == encodeToBase64(S_answer, RemoteSdp).ok
In_answerUrl == S_page \o <<35>> \o In_answer
In_garbage == <<33, 33>>

PasteInputs == {In_offer, In_offerUrl, In_answer, In_garbage}
QRInputs == {In_offer, In_offerUrl, In_answer, In_answerUrl, In_garbage, Null}
HashInputs == {<<>>, <<35>> \o In_offer, <<35>> \o In_answer}

\* messages the remote peer can send over the data channel
Messages == {"media-offer", "media-answer", "ice-candidate", "not-json", "unknown-type"}

ConnIds == 1..MaxConns
CandIds == 1..MaxCands

FreeConn ==
  [kind |-> "free", sig |-> "stable", local |-> Null, remote |-> FALSE,
   gather |-> "new", cs |-> "new", dc |-> "none", out |-> <<>>,
   cands |-> <<>>, gathered |-> 0]

NewConn(kind, dc) == [FreeConn EXCEPT !.kind = kind, !.dc = dc]

\* store/state.js
InitialState ==
  [connectionState |-> "idle", role |-> "null", buttonState |-> "initial",
   localStream |-> FALSE, remoteStream |-> FALSE,
   offerUrl |-> Null, answerCode |-> Null,
   isProcessing |-> FALSE, isLoading |-> FALSE, error |-> "null"]

\* WebRTCService constructor, and ConnectionController.setupEventHandlers
InitialService ==
  [pc |-> 0, mediaPc |-> 0, dataChannel |-> 0, role |-> "null",
   connectionEstablished |-> FALSE, listeners |-> TRUE]

\* store/state.js: the fields of the user interface
InitialUI == [micEnabled |-> TRUE, cameraEnabled |-> TRUE, videoMode |-> "split"]

\* MediaService constructor
InitialMedia ==
  [localStream |-> FALSE, micEnabled |-> TRUE, cameraEnabled |-> TRUE,
   audioTrack |-> FALSE, videoTrack |-> FALSE]

Task(op, at, c) == [op |-> op, at |-> at, c |-> c, cancelled |-> FALSE]

NoInput == [type |-> "none", sdp |-> <<>>, url |-> FALSE, text |-> <<>>]
NoOutput == [op |-> "none", res |-> Throw("none")]

\* window load: the App is constructed and start() has called init(), which
\* awaits getUserMedia
Init ==
  /\ state = InitialState
  /\ svc = InitialService
  /\ conns = [i \in ConnIds |-> FreeConn]
  /\ tasks = {Task("init", "getUserMedia", 0)}
  /\ hash \in HashInputs
  /\ input = NoInput
  /\ output = NoOutput
  /\ ui = InitialUI
  /\ media = InitialMedia

\* ------------------------------------------------------------------------
\* store/mutations.js and store/actions.js
\* ------------------------------------------------------------------------

setConnectionState(st, v) == [st EXCEPT !.connectionState = v]
setRole(st, v) == [st EXCEPT !.role = v]
setButtonState(st, v) == [st EXCEPT !.buttonState = v]
setLocalStream(st, v) == [st EXCEPT !.localStream = v]
setRemoteStream(st, v) == [st EXCEPT !.remoteStream = v]
setOfferUrl(st, v) == [st EXCEPT !.offerUrl = v]
setAnswerCode(st, v) == [st EXCEPT !.answerCode = v]
setProcessing(st, v) == [st EXCEPT !.isProcessing = v]
setLoading(st, v) == [st EXCEPT !.isLoading = v]
setError(st, v) == [st EXCEPT !.error = v]
setVideoMode(u, v) == [u EXCEPT !.videoMode = v]
setMicEnabled(u, v) == [u EXCEPT !.micEnabled = v]
setCameraEnabled(u, v) == [u EXCEPT !.cameraEnabled = v]

\* a faulty variant: the in-flight flags survive
reset_KeepsFlags(st) ==
  [st EXCEPT !.connectionState = "idle", !.role = "null", !.buttonState = "initial",
             !.remoteStream = FALSE, !.offerUrl = Null, !.answerCode = Null,
             !.error = "null"]

\* mutations.reset: every field but localStream
reset(st) ==
  [st EXCEPT !.connectionState = "idle", !.role = "null", !.buttonState = "initial",
             !.remoteStream = FALSE, !.offerUrl = Null, !.answerCode = Null,
             !.isProcessing = FALSE, !.isLoading = FALSE, !.error = "null"]

\* a faulty variant: the action leaves the button state
dispatchStartAsInitiator_RoleOnly(st) == setRole(st, "initiator")

dispatchStartAsInitiator(st) == setButtonState(setRole(st, "initiator"), "initiator-share")
dispatchBecomeResponder(st) == setButtonState(setRole(st, "responder"), "responder-share")
\* qrPasteContext, which the action also sets, selects the context of
\* processQRCode: ProcessQRCode draws the context as an input
waitForAnswer(st) == setButtonState(st, "initiator-wait-answer")
connectEstablished(st) ==
  setLoading(setProcessing(setButtonState(setConnectionState(st, "connected"),
                                          "connected"), FALSE), FALSE)
connectionFailed(st, error) ==
  setLoading(setProcessing(setError(setConnectionState(st, "failed"), error), FALSE), FALSE)
resetToInitial(st) == reset(st)

\* a faulty variant: the catch block leaves the loading flag
CatchBlock_KeepsLoading(st, message) == setProcessing(setError(st, message), FALSE)

\* the catch block of startAsInitiator, handleOfferFromHash and processAnswer
CatchBlock(st, message) == setLoading(setProcessing(setError(st, message), FALSE), FALSE)

\* ------------------------------------------------------------------------
\* The page as one value: the operators below take it and return it changed.
\* last is the outcome of the operation that ran last in the step ("none"
\* while it is still awaiting); blocked marks a step a bound does not allow.
\* ------------------------------------------------------------------------

World ==
  [state |-> state, svc |-> svc, conns |-> conns, tasks |-> tasks, hash |-> hash,
   last |-> [op |-> "none", res |-> "none"], blocked |-> FALSE]

\* a connection the service no longer references and no operation awaits can
\* not be observed any more: only its existence is kept. iceGatheringState is
\* read by waitForICECandidates alone, on behalf of a control negotiation that
\* is under way: with none under way it cannot be observed either
Negotiating(w) == \E t \in w.tasks : t.op \in {"startAsInitiator", "handleOfferFromHash"}

Forget(w) ==
  [w EXCEPT !.conns = [i \in ConnIds |->
     IF w.conns[i].kind \notin {"data", "media"} THEN w.conns[i]
     ELSE IF /\ i \notin {w.svc.pc, w.svc.mediaPc, w.svc.dataChannel}
             /\ \A t \in w.tasks : t.c # i
     THEN NewConn(w.conns[i].kind, "none")
     ELSE IF ~Negotiating(w) THEN [w.conns[i] EXCEPT !.gather = "new"]
     ELSE w.conns[i]]]

\* the fields of the user interface after the operation that ran last:
\* mutations.reset puts videoMode back to 'split', location.reload() builds
\* the store anew
PageUI(w) ==
  IF w.last.op = "closeConnection" THEN InitialUI
  ELSE IF w.last.op = "reset" THEN setVideoMode(ui, "split")
  ELSE ui

\* the MediaService after it: getUserMedia keeps the stream it was granted,
\* whose tracks are enabled; location.reload() builds the service anew
PageMedia(w) ==
  IF w.last.op = "closeConnection" THEN InitialMedia
  ELSE IF w.state.localStream /\ ~state.localStream
  THEN [media EXCEPT !.localStream = TRUE, !.audioTrack = TRUE, !.videoTrack = TRUE]
  ELSE media

InUse(cn) == Cardinality({i \in ConnIds : cn[i].kind # "free"})

\* the step to w where more than MaxLive connections may have been created
BecomesWide(w) ==
  \E y \in {w} : \E x \in {Forget(y)} :
    /\ ~x.blocked
    /\ state' = x.state
    /\ svc' = x.svc
    /\ conns' = x.conns
    /\ tasks' = x.tasks
    /\ hash' = x.hash
    /\ ui' = PageUI(x)
    /\ media' = PageMedia(x)
    /\ UNCHANGED <<input, output>>

Becomes(w) ==
  \E y \in {w} : \E x \in {Forget(y)} :
    /\ ~x.blocked
    /\ InUse(x.conns) <= MaxLive
    /\ state' = x.state
    /\ svc' = x.svc
    /\ conns' = x.conns
    /\ tasks' = x.tasks
    /\ hash' = x.hash
    /\ ui' = PageUI(x)
    /\ media' = PageMedia(x)
    /\ UNCHANGED <<input, output>>

Returned(w, op, res) == [w EXCEPT !.last = [op |-> op, res |-> res]]

\* the outcomes that are exceptions leaving the operation
Errors ==
  {"TypeError", "InvalidStateError", "InvalidModificationError",
   "Peer connection not initialized", "Encoding failed",
   "INVALID_OFFER", "INVALID_ANSWER", "INVALID_QR",
   "QR_WRONG_TYPE_OFFER", "QR_WRONG_TYPE_ANSWER", "CAMERA_DENIED",
   "NO_OFFER_URL", "Failed to share offer"}

Threw(w) == w.last.res \in Errors

HasFree(cn) == \E i \in ConnIds : cn[i].kind = "free"
FreeId(cn) == CHOOSE i \in ConnIds : cn[i].kind = "free" /\ \A j \in 1..(i - 1) : cn[j].kind # "free"

\* an async function suspends at an await
Spawn(w, t) ==
  IF Cardinality(w.tasks) >= MaxTasks \/ t \in w.tasks
  THEN [w EXCEPT !.blocked = TRUE]
  ELSE [w EXCEPT !.tasks = @ \cup {t}]

\* the catch blocks of the controller: store the message, clear the flags, rethrow
Fail(w, op, message) ==
  Returned([w EXCEPT !.state = CatchBlock(@, message)], op, message)

\* an exception no catch block receives (an event handler's rejected promise,
\* an error thrown in a browser callback)
Unhandled(w, op, message) == Returned(w, op, message)

\* the try/catch of onmessage, and of handleRemoteICECandidate, logs the error
Logged(w, op, message) == Returned(w, op, "logged")

\* ------------------------------------------------------------------------
\* services/WebRTCService.js
\* ------------------------------------------------------------------------

\* new RTCPeerConnection(...)
Create(w, kind, dc) ==
  IF ~HasFree(w.conns) THEN [w EXCEPT !.blocked = TRUE]
  ELSE [w EXCEPT !.conns[FreeId(w.conns)] = NewConn(kind, dc)]

createDataConnection(w) ==
  LET i == IF HasFree(w.conns) THEN FreeId(w.conns) ELSE 0
      initiator == w.svc.role = "initiator"
      w1 == Create(w, "data", IF initiator THEN "connecting" ELSE "none")
  IN [w1 EXCEPT !.svc.pc = i,
                !.svc.dataChannel = IF initiator THEN i ELSE @]

createMediaPeerConnection(w) == Create(w, "media", "none")

\* this.mediaPc = this.createMediaPeerConnection(localStream)
setMediaPc(w) ==
  LET i == IF HasFree(w.conns) THEN FreeId(w.conns) ELSE 0 IN
  [createMediaPeerConnection(w) EXCEPT !.svc.mediaPc = i]

\* pc.close(): an operation pending on the connection never settles, and a
\* gathering wait on it keeps only its timer
CloseConn(w, i) ==
  IF i = 0 THEN w
  ELSE [w EXCEPT
         !.conns[i] = NewConn("closed", "none"),
         !.tasks = {t \in @ : t.c # i} \cup
                   {[t EXCEPT !.c = 0] : t \in {u \in @ : u.c = i /\ u.at = "gather"}}]

\* dataChannel.close()
CloseChannel(w, i) ==
  IF i = 0 \/ w.conns[i].kind \notin {"data", "media"} THEN w
  ELSE [w EXCEPT !.conns[i].dc = "closed"]

cleanup(w) ==
  LET w1 == CloseConn(w, w.svc.pc)
      w2 == CloseConn(w1, w.svc.mediaPc)
      w3 == CloseChannel(w2, w.svc.dataChannel)
  IN [w3 EXCEPT !.svc.pc = 0, !.svc.mediaPc = 0, !.svc.dataChannel = 0,
                !.svc.connectionEstablished = FALSE,
                !.svc.listeners = FALSE]

\* this.dataChannel.send(JSON.stringify({type: m, ...})) in an event handler
Send(w, op, m) ==
  LET d == w.svc.dataChannel IN
  IF d = 0 THEN Unhandled(w, op, "TypeError")
  ELSE IF w.conns[d].dc # "open" THEN Unhandled(w, op, "InvalidStateError")
  ELSE Returned([w EXCEPT !.conns[d].out = Append(@, m)], op, "ok")

\* the controller's handler of 'remote-track'
OnRemoteTrack(w) ==
  IF w.svc.listeners
  THEN [w EXCEPT !.state = connectEstablished(setRemoteStream(@, TRUE))]
  ELSE w

\* the controller's handler of 'connection-failed'
OnConnectionFailed(w) ==
  IF w.svc.listeners
  THEN [w EXCEPT !.state = connectionFailed(@, "CONNECTION_FAILED")]
  ELSE w

\* the controller's handler of 'data-connection-established': await delay(...)
OnDataConnectionEstablished(w) ==
  IF w.svc.listeners THEN Spawn(w, Task("settle", "delay", 0)) ELSE w

\* the codec on the texts of the model, computed once
OfferUrlOf == [sdp \in {LocalSdp, LocalMediaSdp} |-> createOfferUrl(sdp)]
AnswerCodeOf == [sdp \in {LocalSdp, LocalMediaSdp} |-> createAnswerCode(sdp)]

\* a faulty variant: the description of the media connection, when there is
\* one, is the one published
AfterGather_Media(w, op) ==
  LET x == IF w.svc.mediaPc # 0 THEN w.svc.mediaPc ELSE w.svc.pc IN
  IF x = 0 THEN Fail(w, op, "TypeError")
  ELSE IF w.conns[x].local = Null THEN Fail(w, op, "TypeError")
  ELSE IF op = "startAsInitiator" THEN
    Returned([w EXCEPT !.state =
      setLoading(dispatchStartAsInitiator(setOfferUrl(@, OfferUrlOf[w.conns[x].local].ok)), FALSE)],
      op, "ok")
  ELSE
    Returned([w EXCEPT !.state =
      setLoading(dispatchBecomeResponder(setAnswerCode(@, AnswerCodeOf[w.conns[x].local].ok)), FALSE)],
      op, "ok")

\* what follows waitForICECandidates in createOffer/createAnswer, and then in
\* startAsInitiator/handleOfferFromHash
AfterGather(w, op) ==
  LET x == w.svc.pc IN
  IF x = 0 THEN Fail(w, op, "TypeError")
  ELSE IF w.conns[x].local = Null THEN Fail(w, op, "TypeError")
  ELSE IF op = "startAsInitiator" THEN
    LET url == OfferUrlOf[w.conns[x].local] IN
    IF IsThrow(url) THEN Fail(w, op, url.throw)
    ELSE Returned([w EXCEPT !.state =
           setLoading(dispatchStartAsInitiator(setOfferUrl(@, url.ok)), FALSE)], op, "ok")
  ELSE
    LET code == AnswerCodeOf[w.conns[x].local] IN
    IF IsThrow(code) THEN Fail(w, op, code.throw)
    ELSE Returned([w EXCEPT !.state =
           setLoading(dispatchBecomeResponder(setAnswerCode(@, code.ok)), FALSE)], op, "ok")

waitForICECandidates(w, op) ==
  LET x == w.svc.pc IN
  IF x = 0 THEN Fail(w, op, "TypeError")
  ELSE IF w.conns[x].gather = "complete" THEN AfterGather(w, op)
  ELSE Spawn(w, Task(op, "gather", x))

\* pc.setLocalDescription(description) called by operation op on this.pc or
\* this.mediaPc (which); made is the connection whose createOffer/createAnswer
\* produced the description
\* how an operation's exception ends: in the controller's catch block, or unhandled
Raise(how, w, op, message) ==
  IF how = "catch" THEN Fail(w, op, message) ELSE Unhandled(w, op, message)

CallSetLocal(w, op, which, made, how) ==
  LET x == w.svc[which] IN
  IF x = 0 THEN Raise(how, w, op, "TypeError")
  ELSE IF x # made THEN Raise(how, w, op, "InvalidModificationError")
  ELSE Spawn(w, Task(op, "setLocal", x))

\* pc.createAnswer()
CallCreateAnswer(w, op, which, how) ==
  LET x == w.svc[which] IN
  IF x = 0 THEN Raise(how, w, op, "TypeError")
  ELSE IF w.conns[x].sig # "have-remote-offer" THEN Raise(how, w, op, "InvalidStateError")
  ELSE Spawn(w, Task(op, "createAnswer", x))

\* the local description is set: signaling state moves, gathering starts
SetLocalDone(w, c, type) ==
  [w EXCEPT !.conns[c].sig = IF type = "offer" THEN "have-local-offer" ELSE "stable",
            !.conns[c].local = IF w.conns[c].kind = "media" THEN LocalMediaSdp ELSE LocalSdp,
            !.conns[c].gather = IF @ = "new" THEN "gathering" ELSE @]

\* setRemoteDescription succeeds in the signaling state that admits the type
CanSetRemote(cn, type) ==
  IF type = "offer" THEN cn.sig = "stable" ELSE cn.sig = "have-local-offer"

SetRemoteDone(w, c, type) ==
  [w EXCEPT !.conns[c].sig = IF type = "offer" THEN "have-remote-offer" ELSE "stable",
            !.conns[c].remote = TRUE]

\* what sendMediaOffer and processMediaOffer do once the local description is
\* set: read this.mediaPc.localDescription.sdp and send it on this.dataChannel
SendDescription(w, op, m) ==
  LET x == w.svc.mediaPc IN
  IF x = 0 THEN Unhandled(w, op, "TypeError")
  ELSE IF w.conns[x].local = Null THEN Unhandled(w, op, "TypeError")
  ELSE Send(w, op, m)

sendMediaOffer(w) ==
  LET w1 == setMediaPc(w) IN
  IF w1.blocked THEN w1
  ELSE Spawn(w1, Task("sendMediaOffer", "createOffer", w1.svc.mediaPc))

\* ConnectionController.startMediaNegotiation, then WebRTCService.startMediaNegotiation
startMediaNegotiation(w) ==
  IF ~w.state.localStream THEN Returned(w, "startMediaNegotiation", "no-stream")
  ELSE IF w.svc.role = "initiator" THEN sendMediaOffer(w)
  ELSE Returned(w, "startMediaNegotiation", "ok")

processMediaOffer(w) ==
  LET w1 == setMediaPc(w) IN
  IF w1.blocked THEN w1
  ELSE Spawn(w1, Task("processMediaOffer", "setRemote", w1.svc.mediaPc))

\* handleMediaOffer emits 'media-offer-received'; the controller's handler
handleMediaOffer(w) ==
  IF w.svc.listeners /\ w.state.localStream THEN processMediaOffer(w)
  ELSE Returned(w, "handleMediaOffer", "ok")

\* a faulty variant: the TypeError of a null mediaPc leaves the handler
handleMediaAnswer_Uncaught(w) ==
  LET x == w.svc.mediaPc IN
  IF x = 0 THEN Unhandled(w, "handleMediaAnswer", "TypeError")
  ELSE Spawn(w, Task("handleMediaAnswer", "setRemote", x))

handleMediaAnswer(w) ==
  LET x == w.svc.mediaPc IN
  IF x = 0 THEN Logged(w, "handleMediaAnswer", "TypeError")
  ELSE Spawn(w, Task("handleMediaAnswer", "setRemote", x))

\* addIceCandidate is queued behind a pending setRemoteDescription; without a
\* remote description it rejects, and the catch block logs
handleRemoteICECandidate(w, id) ==
  LET x == w.svc.mediaPc IN
  IF x = 0 THEN Returned(w, "handleRemoteICECandidate", "skipped")
  ELSE IF w.conns[x].remote \/ \E t \in w.tasks : t.c = x /\ t.at = "setRemote"
  THEN Returned([w EXCEPT !.conns[x].cands = Append(@, id)], "handleRemoteICECandidate", "ok")
  ELSE Logged(w, "handleRemoteICECandidate", "InvalidStateError")

\* one async function resumes after its await; w no longer holds the task
Continue(w, t) ==
  CASE t.op = "startAsInitiator" /\ t.at = "createOffer" ->
         CallSetLocal(w, t.op, "pc", t.c, "catch")
    [] t.op = "startAsInitiator" /\ t.at = "setLocal" ->
         waitForICECandidates(SetLocalDone(w, t.c, "offer"), t.op)
    [] t.op = "handleOfferFromHash" /\ t.at = "setRemote" ->
         IF CanSetRemote(w.conns[t.c], "offer")
         THEN CallCreateAnswer(SetRemoteDone(w, t.c, "offer"), t.op, "pc", "catch")
         ELSE Fail(w, t.op, "InvalidStateError")
    [] t.op = "handleOfferFromHash" /\ t.at = "createAnswer" ->
         CallSetLocal(w, t.op, "pc", t.c, "catch")
    [] t.op = "handleOfferFromHash" /\ t.at = "setLocal" ->
         waitForICECandidates(SetLocalDone(w, t.c, "answer"), t.op)
    [] t.at = "gather" -> AfterGather(w, t.op)
    [] t.op = "processAnswer" /\ t.at = "setRemote" ->
         IF CanSetRemote(w.conns[t.c], "answer")
         THEN Returned(SetRemoteDone(w, t.c, "answer"), t.op, "ok")
         ELSE Fail(w, t.op, "InvalidStateError")
    [] t.op = "settle" /\ t.at = "delay" -> startMediaNegotiation(w)
    [] t.op = "sendMediaOffer" /\ t.at = "createOffer" ->
         CallSetLocal(w, t.op, "mediaPc", t.c, "unhandled")
    [] t.op = "sendMediaOffer" /\ t.at = "setLocal" ->
         SendDescription(SetLocalDone(w, t.c, "offer"), t.op, "media-offer")
    [] t.op = "processMediaOffer" /\ t.at = "setRemote" ->
         IF CanSetRemote(w.conns[t.c], "offer")
         THEN CallCreateAnswer(OnRemoteTrack(SetRemoteDone(w, t.c, "offer")),
                               t.op, "mediaPc", "unhandled")
         ELSE Unhandled(w, t.op, "InvalidStateError")
    [] t.op = "processMediaOffer" /\ t.at = "createAnswer" ->
         CallSetLocal(w, t.op, "mediaPc", t.c, "unhandled")
    [] t.op = "processMediaOffer" /\ t.at = "setLocal" ->
         SendDescription(SetLocalDone(w, t.c, "answer"), t.op, "media-answer")
    [] t.op = "handleMediaAnswer" /\ t.at = "setRemote" ->
         IF CanSetRemote(w.conns[t.c], "answer")
         THEN Returned(OnRemoteTrack(SetRemoteDone(w, t.c, "answer")), t.op, "ok")
         ELSE Logged(w, t.op, "InvalidStateError")
    [] t.at = "share" ->
         Returned([w EXCEPT !.state = waitForAnswer(@)], t.op, "ok")
    [] OTHER -> w

\* the tasks a continuation spawns belong to the operation that resumed
Resumed(w, t) ==
  LET w0 == [w EXCEPT !.tasks = @ \ {t}]
      w1 == Continue(w0, t)
  IN [w1 EXCEPT !.tasks = (@ \cap w0.tasks) \cup
                          {[u EXCEPT !.cancelled = t.cancelled] : u \in @ \ w0.tasks}]

\* ------------------------------------------------------------------------
\* controllers/ConnectionController.js
\* ------------------------------------------------------------------------

\* the codec on the inputs of the model, computed once
QRData == {In_offer, In_answer, In_garbage, UrlHash(In_offerUrl), UrlHash(In_answerUrl)}
Hashes == HashInputs \cup {setHashFromOffer(d) : d \in QRData}
AnswerOf == [code \in PasteInputs \cup QRData |-> parseAnswer(code)]
OfferFromHash == [h \in Hashes |-> getOfferFromHash(h)]
DecodedQR == [d \in QRInputs |-> [c \in {"offer", "answer"} |-> decodeQRFromBlob(d, c)]]

setServiceRole(w, role) == [w EXCEPT !.svc.role = role, !.state = setRole(@, role)]

Busy(w) == [w EXCEPT !.state = setLoading(setProcessing(@, TRUE), TRUE)]

startAsInitiator(w) ==
  IF w.state.isProcessing THEN Returned(w, "startAsInitiator", "ignored")
  ELSE LET w1 == createDataConnection(setServiceRole(Busy(w), "initiator")) IN
       IF w1.blocked THEN w1
       ELSE Spawn(w1, Task("startAsInitiator", "createOffer", w1.svc.pc))

\* a faulty variant: the role is taken before the offer is parsed
handleOfferFromHash_RoleFirst(w) ==
  LET w0 == setServiceRole(Busy(w), "responder")
      offerData == OfferFromHash[w.hash]
  IN IF ~Truthy(offerData) THEN Fail(w0, "handleOfferFromHash", "INVALID_OFFER")
     ELSE LET w1 == createDataConnection(w0) IN
          IF w1.blocked THEN w1
          ELSE Spawn(w1, Task("handleOfferFromHash", "setRemote", w1.svc.pc))

handleOfferFromHash(w) ==
  LET w0 == Busy(w)
      offerData == OfferFromHash[w.hash]
  IN IF ~Truthy(offerData) THEN Fail(w0, "handleOfferFromHash", "INVALID_OFFER")
     ELSE LET w1 == createDataConnection(setServiceRole(w0, "responder")) IN
          IF w1.blocked THEN w1
          ELSE Spawn(w1, Task("handleOfferFromHash", "setRemote", w1.svc.pc))

processAnswer(w, answerCode) ==
  IF w.state.isProcessing THEN Returned(w, "processAnswer", "ignored")
  ELSE LET w0 == Busy(w)
           answerData == AnswerOf[answerCode]
       IN IF IsThrow(answerData) THEN Fail(w0, "processAnswer", answerData.throw)
          ELSE IF w0.svc.pc = 0 THEN Fail(w0, "processAnswer", "Peer connection not initialized")
          ELSE Spawn(w0, Task("processAnswer", "setRemote", w0.svc.pc))

\* generateQRForModal: the text the QR code shows
generateQRForModal(st) ==
  IF st.answerCode # Null THEN [ok |-> st.answerCode]
  ELSE IF st.offerUrl # Null THEN [ok |-> st.offerUrl]
  ELSE Throw("No data available for QR code")

\* shareOfferUrl() and shareOfferQR() up to the await of navigator.share or
\* of the clipboard
shareOffer(w, op) ==
  IF w.state.offerUrl = Null THEN Returned(w, op, "NO_OFFER_URL")
  ELSE Spawn(w, Task(op, "share", 0))

processQRCode(w, decoded, context) ==
  LET result == DecodedQR[decoded][context] IN
  IF IsThrow(result) THEN Returned(w, "processQRCode", result.throw)
  ELSE IF context = "offer"
  THEN handleOfferFromHash([w EXCEPT !.hash = setHashFromOffer(result.ok.data)])
  ELSE processAnswer(w, result.ok.data)

\* init() after getUserMedia resolved
init(w) ==
  LET w1 == [w EXCEPT !.state = setLocalStream(@, TRUE)] IN
  IF hasOfferInHash(w1.hash) THEN handleOfferFromHash(w1)
  ELSE Returned([w1 EXCEPT !.state = setButtonState(@, "initial")], "init", "ok")

\* reset(): the operations still awaiting are the ones it cancels
controllerReset(w) ==
  LET w1 == cleanup(w)
      w2 == [w1 EXCEPT !.hash = clearHash(@), !.state = resetToInitial(@)]
  IN Returned([w2 EXCEPT !.tasks = {IF u.op = "init" THEN u ELSE [u EXCEPT !.cancelled = TRUE]
                                    : u \in @}],
              "reset", "ok")

\* closeConnection(): cleanup, stop the tracks, clear the hash, then
\* location.reload() loads the page again
closeConnection(w) ==
  LET w1 == cleanup(w)
      w2 == [w1 EXCEPT !.hash = clearHash(@)]
  IN Returned([w2 EXCEPT !.state = InitialState, !.svc = InitialService,
                         !.conns = [i \in ConnIds |-> FreeConn],
                         !.tasks = {Task("init", "getUserMedia", 0)}],
              "closeConnection", "ok")

\* ------------------------------------------------------------------------
\* Actions: calls of the controller
\* ------------------------------------------------------------------------

StartAsInitiator == Becomes(startAsInitiator(World))

ProcessAnswer == \E code \in PasteInputs : Becomes(processAnswer(World, code))

ProcessQRCode ==
  \E decoded \in QRInputs, context \in {"offer", "answer"} :
    Becomes(processQRCode(World, decoded, context))

Reset == Becomes(controllerReset(World))

CloseConnection == Becomes(closeConnection(World))

\* ------------------------------------------------------------------------
\* Actions: promises and timers
\* ------------------------------------------------------------------------

GetUserMediaResolves ==
  \E t \in tasks : t.at = "getUserMedia" /\
    Becomes(init([World EXCEPT !.tasks = @ \ {t}]))

GetUserMediaRejects ==
  \E t \in tasks : t.at = "getUserMedia" /\
    Becomes(Returned([World EXCEPT !.tasks = @ \ {t},
                                   !.state = setError(@, "CAMERA_DENIED")],
                     "init", "CAMERA_DENIED"))

NativeSteps == {"createOffer", "setLocal", "setRemote", "createAnswer"}

\* the promise of a native operation settles
Resume(t) == t.at \in NativeSteps /\ Becomes(Resumed(World, t))

\* the timer of delay(...) or of waitForICECandidates fires
TimerFires(t) == t.at \in {"delay", "gather"} /\ Becomes(Resumed(World, t))

PromiseSettles == \E t \in tasks : Resume(t)

Timeout == \E t \in tasks : TimerFires(t)

\* ------------------------------------------------------------------------
\* Actions: events of the browser (network, remote peer); they concern the
\* connections the service references
\* ------------------------------------------------------------------------

Live(i) == i \in {svc.pc, svc.mediaPc, svc.dataChannel}

RECURSIVE ResumeAll(_, _)
ResumeAll(w, ts) ==
  IF ts = {} THEN w
  ELSE LET t == CHOOSE u \in ts : TRUE IN
       ResumeAll(IF t \in w.tasks THEN Resumed(w, t) ELSE w, ts \ {t})

Waiting(i) == {t \in tasks : t.at = "gather" /\ t.c = i}

\* icegatheringstatechange to 'complete' on a data connection: every
\* waitForICECandidates listening on it resolves
GatheringComplete ==
  \E i \in ConnIds :
    /\ conns[i].kind = "data"
    /\ conns[i].gather = "gathering"
    /\ Waiting(i) # {}
    /\ Becomes(ResumeAll([World EXCEPT !.conns[i].gather = "complete"], Waiting(i)))

\* a faulty variant: the event is emitted whenever the state is 'connected'
onconnectionstatechange_EveryTime(w) ==
  LET x == w.svc.pc IN
  IF x = 0 THEN Unhandled(w, "onconnectionstatechange", "TypeError")
  ELSE IF w.conns[x].cs = "connected"
  THEN OnDataConnectionEstablished([w EXCEPT !.svc.connectionEstablished = TRUE])
  ELSE w

\* pc.onconnectionstatechange, which reads this.pc
onconnectionstatechange(w) ==
  LET x == w.svc.pc IN
  IF x = 0 THEN Unhandled(w, "onconnectionstatechange", "TypeError")
  ELSE IF w.conns[x].cs = "connected" /\ ~w.svc.connectionEstablished
  THEN OnDataConnectionEstablished([w EXCEPT !.svc.connectionEstablished = TRUE])
  ELSE w

\* pc.oniceconnectionstatechange, which reads this.pc
oniceconnectionstatechange(w) ==
  LET x == w.svc.pc IN
  IF x = 0 THEN Unhandled(w, "oniceconnectionstatechange", "TypeError")
  ELSE IF w.conns[x].cs = "failed" THEN OnConnectionFailed(w)
  ELSE w

\* both descriptions are needed before the transports start
CanBecome(cn, s) ==
  /\ cn.remote
  /\ cn.local # Null
  /\ IF s = "connected" THEN cn.cs = "new" ELSE cn.cs \in {"new", "connected"}

\* the ICE and connection state of a data connection changes; the media
\* connection has no state handlers
ConnectionStateChange ==
  \E i \in ConnIds, s \in {"connected", "failed"} :
    /\ conns[i].kind = "data"
    /\ Live(i)
    /\ CanBecome(conns[i], s)
    /\ Becomes(onconnectionstatechange(oniceconnectionstatechange(
                 [World EXCEPT !.conns[i].cs = s])))

\* the media connection reports a connectivity failure: the service sets no
\* oniceconnectionstatechange or onconnectionstatechange on it
MediaConnectionFails ==
  \E i \in ConnIds :
    /\ conns[i].kind = "media"
    /\ i = svc.mediaPc
    /\ CanBecome(conns[i], "failed")
    /\ Becomes([World EXCEPT !.conns[i].cs = "failed"])

\* mediaPc.onicecandidate with a candidate, which reads this.dataChannel
onicecandidate(w, i) ==
  LET d == w.svc.dataChannel
      w1 == [w EXCEPT !.conns[i].gathered = @ + 1]
  IN IF d # 0 /\ w.conns[d].dc = "open"
     THEN Returned([w1 EXCEPT !.conns[d].out = Append(@, "ice-candidate")],
                   "onicecandidate", "ok")
     ELSE Returned(w1, "onicecandidate", "ok")

\* gathering on a media connection starts with its local description
LocalCandidate(i) ==
  /\ conns[i].kind = "media"
  /\ i = svc.mediaPc
  /\ conns[i].local # Null
  /\ conns[i].gathered < MaxCands
  /\ Becomes(onicecandidate(World, i))

LocalMediaCandidate == \E i \in ConnIds : LocalCandidate(i)

\* pc.ondatachannel: the remote peer's channel arrives, open
DataChannelArrives ==
  \E i \in ConnIds :
    /\ conns[i].kind = "data"
    /\ Live(i)
    /\ conns[i].cs = "connected"
    /\ conns[i].dc = "none"
    /\ Becomes([World EXCEPT !.conns[i].dc = "open", !.svc.dataChannel = i])

\* channel.onopen of the channel the initiator created
DataChannelOpens ==
  \E i \in ConnIds :
    /\ conns[i].kind = "data"
    /\ Live(i)
    /\ conns[i].cs = "connected"
    /\ conns[i].dc = "connecting"
    /\ Becomes([World EXCEPT !.conns[i].dc = "open"])

\* channel.onmessage: JSON.parse, then the handler of the message type
onmessage(w, m, id) ==
  CASE m = "media-offer" -> handleMediaOffer(w)
    [] m = "media-answer" -> handleMediaAnswer(w)
    [] m = "ice-candidate" -> handleRemoteICECandidate(w, id)
    [] m = "not-json" -> Logged(w, "onmessage", "SyntaxError")
    [] OTHER -> Returned(w, "onmessage", "ok")

Applied(cn) == {cn.cands[k] : k \in 1..Len(cn.cands)}

\* a message of the remote peer arrives on an open channel; the peer sends
\* each of its candidates to a media connection once
Arrives(i, m, id) ==
  /\ conns[i].kind = "data"
  /\ Live(i)
  /\ conns[i].dc = "open"
  /\ m = "ice-candidate" => (svc.mediaPc # 0 => id \notin Applied(conns[svc.mediaPc]))
  /\ m # "ice-candidate" => id = 1
  /\ Becomes(onmessage(World, m, id))

MessageArrives == \E i \in ConnIds, m \in Messages, id \in CandIds : Arrives(i, m, id)

Next ==
  \/ StartAsInitiator
  \/ ProcessAnswer
  \/ ProcessQRCode
  \/ Reset
  \/ CloseConnection
  \/ GetUserMediaResolves
  \/ GetUserMediaRejects
  \/ PromiseSettles
  \/ Timeout
  \/ GatheringComplete
  \/ ConnectionStateChange
  \/ MediaConnectionFails
  \/ LocalMediaCandidate
  \/ DataChannelArrives
  \/ DataChannelOpens
  \/ MessageArrives

Spec == Init /\ [][Next]_vars

\* ------------------------------------------------------------------------
\* The codec alone: a session description is encoded, the user copies the
\* result (the whole URL or only its fragment), and it is parsed
\* ------------------------------------------------------------------------

\* characters of a description: "v", a quote, a backslash, a line feed, a
\* Latin-1 letter, and a character outside Latin-1
SdpChars == {118, 34, 92, 10, 233, 8364}

RECURSIVE StringsUpTo(_)
StringsUpTo(n) ==
  IF n = 0 THEN {<<>>}
  ELSE StringsUpTo(n - 1) \cup
       {Append(t, c) : t \in {u \in StringsUpTo(n - 1) : Len(u) = n - 1}, c \in SdpChars}

Sdps == StringsUpTo(MaxLen)

\* the object {type: t, sdp: s} as JSON.parse returns it
SignalData(t, s) == JObj(<<<<S_type, JStr(t)>>, <<S_sdp, JStr(s)>>>>)

InitCodec ==
  /\ state = InitialState
  /\ svc = InitialService
  /\ conns = [i \in ConnIds |-> FreeConn]
  /\ tasks = {}
  /\ hash = <<>>
  /\ input \in {[NoInput EXCEPT !.sdp = s] : s \in Sdps}
  /\ output = NoOutput
  /\ ui = InitialUI
  /\ media = InitialMedia

\* the text a successful encoding hands to the user
Encoded(type, url, res) ==
  IF IsThrow(res) THEN [input EXCEPT !.type = type]
  ELSE [input EXCEPT !.type = type, !.url = url, !.text = res.ok]

CreateOfferUrl ==
  /\ output.op = "none"
  /\ output' = [op |-> "createOfferUrl", res |-> createOfferUrl(input.sdp)]
  /\ input' = Encoded("offer", TRUE, output'.res)
  /\ UNCHANGED <<ui, media, state, svc, conns, tasks, hash>>

CreateAnswerCode ==
  /\ output.op = "none"
  /\ output' = [op |-> "createAnswerCode", res |-> createAnswerCode(input.sdp)]
  /\ input' = Encoded("answer", FALSE, output'.res)
  /\ UNCHANGED <<ui, media, state, svc, conns, tasks, hash>>

EncodeToBase64 ==
  /\ output.op = "none"
  /\ \E t \in {"offer", "answer"} :
       /\ output' = [op |-> "encodeToBase64",
                     res |-> encodeToBase64(IF t = "offer" THEN S_offer ELSE S_answer,
                                            input.sdp)]
       /\ input' = Encoded(t, FALSE, output'.res)
  /\ UNCHANGED <<ui, media, state, svc, conns, tasks, hash>>

\* the user copies the fragment of the offer URL instead of the URL
CopyFragment ==
  /\ output.op = "createOfferUrl"
  /\ input.url
  /\ input' = [input EXCEPT !.url = FALSE, !.text = UrlHash(@)]
  /\ UNCHANGED <<ui, media, state, svc, conns, tasks, hash, output>>

Shared == output.op \in {"createOfferUrl", "createAnswerCode"} /\ ~IsThrow(output.res)

ParseOffer ==
  /\ Shared
  /\ output' = [op |-> "parseOffer", res |-> parseOffer(input.text)]
  /\ UNCHANGED <<ui, media, state, svc, conns, tasks, hash, input>>

ParseAnswer ==
  /\ Shared
  /\ output' = [op |-> "parseAnswer", res |-> parseAnswer(input.text)]
  /\ UNCHANGED <<ui, media, state, svc, conns, tasks, hash, input>>

DecodeFromBase64 ==
  /\ output.op = "encodeToBase64"
  /\ ~IsThrow(output.res)
  /\ output' = [op |-> "decodeFromBase64", res |-> decodeFromBase64(input.text)]
  /\ UNCHANGED <<ui, media, state, svc, conns, tasks, hash, input>>

\* the page is opened with no fragment, an empty one, one that is no base64
\* text, or the text the encoder made as its fragment
GetOfferFromHash ==
  /\ output.op \in {"none", "createOfferUrl", "createAnswerCode", "encodeToBase64"}
  /\ \E h \in {<<>>, <<35>>, <<35>> \o In_garbage,
                <<35>> \o (IF input.url THEN UrlHash(input.text) ELSE input.text)} :
       /\ hash' = h
       /\ output' = [op |-> "getOfferFromHash", res |-> getOfferFromHash(h)]
  /\ UNCHANGED <<ui, media, state, svc, conns, tasks, input>>

NextCodec ==
  \/ CreateOfferUrl
  \/ CreateAnswerCode
  \/ EncodeToBase64
  \/ CopyFragment
  \/ ParseOffer
  \/ ParseAnswer
  \/ DecodeFromBase64
  \/ GetOfferFromHash

SpecCodec == InitCodec /\ [][NextCodec]_vars

\* ------------------------------------------------------------------------
\* Properties
\* ------------------------------------------------------------------------

\* the control connection exists, is connected, and its data channel is open
ControlReady ==
  /\ svc.pc # 0
  /\ conns[svc.pc].cs = "connected"
  /\ svc.dataChannel # 0
  /\ conns[svc.dataChannel].dc = "open"

Sent(cn, m) == Len(SelectSeq(cn.out, LAMBDA x : x = m))

RECURSIVE SentUpTo(_, _)
SentUpTo(m, i) == IF i = 0 THEN 0 ELSE Sent(conns[i], m) + SentUpTo(m, i - 1)

SentAll(m) == SentUpTo(m, MaxConns)

\* C1: the settle delay creates the media connection, and sendMediaOffer sends
\* 'media-offer', only while the control connection exists, is connected and
\* has its data channel open
C1_MediaOnlyOverReadyControl ==
  [][\A t \in tasks :
       /\ (t.op = "settle" /\ TimerFires(t) /\ svc'.mediaPc # svc.mediaPc) => ControlReady
       /\ (t.op = "sendMediaOffer" /\ Resume(t) /\ SentAll("media-offer")' > SentAll("media-offer"))
            => ControlReady]_vars

\* ------------------------------------------------------------------------
\* Scenario A: one page of a two-page session. The page opened without a hash
\* is the initiator's: the user starts, shares the offer, and pastes the answer
\* the responder shared. The page opened with the offer in its hash is the
\* responder's: its answer is applied remotely, the initiator's channel and
\* media offer arrive. Media access is granted and the network never fails.
\* ------------------------------------------------------------------------

InitA ==
  /\ Init
  /\ hash \in {<<>>, <<35>> \o In_offer}

A_Start ==
  /\ hash = <<>>
  /\ state.role = "null"
  /\ StartAsInitiator

A_PasteAnswer ==
  /\ state.offerUrl # Null
  /\ Becomes(processAnswer(World, In_answer))

A_Connected ==
  \E i \in ConnIds :
    /\ conns[i].kind = "data"
    /\ Live(i)
    /\ CanBecome(conns[i], "connected")
    /\ Becomes(onconnectionstatechange(oniceconnectionstatechange(
                 [World EXCEPT !.conns[i].cs = "connected"])))

A_Message ==
  \E i \in ConnIds, m \in {"media-offer", "ice-candidate"}, id \in CandIds :
    /\ m = "media-offer" => svc.mediaPc = 0
    /\ Arrives(i, m, id)

NextA ==
  \/ GetUserMediaResolves
  \/ A_Start
  \/ A_PasteAnswer
  \/ PromiseSettles
  \/ Timeout
  \/ GatheringComplete
  \/ A_Connected
  \/ DataChannelArrives
  \/ A_Message

\* promises settle, timers fire, the user and the remote peer do their part
SpecA ==
  /\ InitA
  /\ [][NextA]_vars
  /\ WF_vars(GetUserMediaResolves)
  /\ WF_vars(A_Start)
  /\ WF_vars(A_PasteAnswer)
  /\ WF_vars(PromiseSettles)
  /\ WF_vars(Timeout)
  /\ WF_vars(GatheringComplete)
  /\ WF_vars(A_Connected)
  /\ WF_vars(DataChannelArrives)
  /\ WF_vars(A_Message)

\* C2: in scenario A the page eventually shows connectionState 'connected'
C2_EventuallyConnected == <>(state.connectionState = "connected")

\* C3: parseAnswer of an offer envelope and parseOffer of an answer envelope
\* throw INVALID_ANSWER / INVALID_OFFER: neither returns a payload
C3_CrossTypeParseThrows ==
  /\ (output.op = "parseAnswer" /\ input.type = "offer")
       => output.res = Throw("INVALID_ANSWER")
  /\ (output.op = "parseOffer" /\ input.type = "answer")
       => output.res = Throw("INVALID_OFFER")

\* an answer code of a description with text was given to parseOffer, which threw
C3_Witness ==
  /\ output.op = "parseOffer"
  /\ input.type = "answer"
  /\ input.sdp # <<>>
  /\ input.text # <<>>
  /\ IsThrow(output.res)

\* the session is idle: no role, no connection
IdleSession(w) ==
  /\ w.state.role = "null"
  /\ w.state.connectionState = "idle"
  /\ w.state.buttonState = "initial"
  /\ w.svc.pc = 0
  /\ w.svc.mediaPc = 0

AnswerHash == <<35>> \o In_answer

\* C4: in an idle session, processQRCode with context 'offer' on an answer
\* envelope (the code, or a URL carrying it) and init() on a hash holding an
\* answer envelope end in an error, leave the session idle and create no
\* RTCPeerConnection
C4_AnswerOnResponderPathFails ==
  IdleSession(World) =>
    /\ \A d \in {In_answer, In_answerUrl} :
         LET r == processQRCode(World, d, "offer") IN
         Threw(r) /\ IdleSession(r) /\ r.conns = conns
    /\ \A t \in tasks :
         (t.at = "getUserMedia" /\ hash = AnswerHash) =>
           LET r == init([World EXCEPT !.tasks = @ \ {t}]) IN
           Threw(r) /\ IdleSession(r) /\ r.conns = conns

\* handleOfferFromHash has rejected the answer envelope in the hash
C4_Witness ==
  /\ hash = AnswerHash
  /\ state.error = "INVALID_OFFER"
  /\ ~state.isProcessing
  /\ IdleSession(World)
  /\ \A i \in ConnIds : conns[i].kind = "free"

\* a data channel the service holds is open
ChannelOpen ==
  \E i \in ConnIds : conns[i].kind = "data" /\ Live(i) /\ conns[i].dc = "open"

\* C5: a remote candidate that arrives over the open data channel is not lost:
\* once its message is handled the media connection holds it (the service
\* has no other place that keeps a candidate for later)
C5_RemoteCandidateKept ==
  ChannelOpen =>
    \A id \in CandIds :
      LET r == onmessage(World, "ice-candidate", id) IN
      r.svc.mediaPc # 0 /\ id \in Applied(r.conns[r.svc.mediaPc])

\* what a call made while another is outstanding must leave alone
Ignored(r) ==
  /\ r.conns = conns
  /\ r.svc.role = svc.role
  /\ r.state.role = state.role
  /\ r.svc.pc = svc.pc

\* C6: while startAsInitiator or handleOfferFromHash is outstanding and
\* isProcessing is true, a further startAsInitiator, handleOfferFromHash
\* (also through processQRCode with context 'offer') or processAnswer creates
\* no connection, changes no role and does not replace the service's pc
C6_InFlightGuard ==
  (state.isProcessing /\ Negotiating(World)) =>
    /\ Ignored(startAsInitiator(World))
    /\ \A code \in PasteInputs : Ignored(processAnswer(World, code))
    /\ \A h \in HashInputs : Ignored(handleOfferFromHash([World EXCEPT !.hash = h]))
    /\ \A d \in QRInputs : LET r == processQRCode(World, d, "offer") IN
                            r.blocked \/ Ignored(r)

\* C7: a timer or continuation of an operation that reset() cancelled does
\* not throw, leaves the store as it is, and creates or uses no connection
C7_CancelledDoesNothing ==
  \A t \in tasks :
    t.cancelled =>
      LET r == Resumed(World, t) IN
      r.blocked \/ (~Threw(r) /\ r.state = state /\ r.conns = conns /\ r.svc = svc)

\* the store after reset(): its initial values, localStream aside; the
\* service holds no connection and no channel
AfterReset(r) ==
  /\ r.state = [InitialState EXCEPT !.localStream = state.localStream]
  /\ r.svc.pc = 0
  /\ r.svc.mediaPc = 0
  /\ r.svc.dataChannel = 0

C9_RoleImmutable ==
  [][(state.role # "null" /\ state'.role # "null")
       => (state'.role = state.role /\ svc'.role = svc.role)]_vars

\* C10: while the store's role is null and connectionState is 'idle' the
\* service holds no RTCPeerConnection
C10_LazyCreation ==
  (state.role = "null" /\ state.connectionState = "idle")
    => (svc.pc = 0 /\ svc.mediaPc = 0)

\* ------------------------------------------------------------------------
\* Scenario G: ICE gathering never reaches 'complete' on any connection; the
\* timers the page has set fire
\* ------------------------------------------------------------------------

NextG ==
  \/ StartAsInitiator
  \/ ProcessAnswer
  \/ ProcessQRCode
  \/ Reset
  \/ CloseConnection
  \/ GetUserMediaResolves
  \/ GetUserMediaRejects
  \/ PromiseSettles
  \/ Timeout
  \/ ConnectionStateChange
  \/ MediaConnectionFails
  \/ LocalMediaCandidate
  \/ DataChannelArrives
  \/ DataChannelOpens
  \/ MessageArrives

SpecG == Init /\ [][NextG]_vars /\ WF_vars(Timeout)

GatherPending == \E t \in tasks : t.at = "gather"

\* C11: a wait for ICE gathering always ends although gathering never
\* completes, and when its timer fires in the operation that still owns the
\* connection, createOffer/createAnswer return the local description as it
\* is: the offer URL or answer code made from it is published
C11_GatheringTimeout ==
  /\ [](\A t \in tasks :
         (t.at = "gather" /\ ~t.cancelled /\ t.c = svc.pc) =>
           LET r == Resumed(World, t) IN
           /\ ~Threw(r)
           /\ t.op = "startAsInitiator" =>
                 r.state.offerUrl = createOfferUrl(conns[t.c].local).ok
           /\ t.op = "handleOfferFromHash" =>
                 r.state.answerCode = createAnswerCode(conns[t.c].local).ok)
  /\ (GatherPending ~> ~GatherPending)

\* one more message m is in the send record of a channel after the step
Sends(m) == \E i \in ConnIds : Sent(conns'[i], m) > Sent(conns[i], m)

\* C12: a 'media-offer' is sent only while the role is 'initiator'; a
\* 'media-answer' is sent only as the last step of processMediaOffer,
\* and processMediaOffer starts only when a 'media-offer' arrives
C12_SymmetricInitiation ==
  [][/\ Sends("media-offer") => (svc.role = "initiator" /\ state.role = "initiator")
     /\ Sends("media-answer") =>
           \E t \in tasks \ tasks' : t.op = "processMediaOffer" /\ t.at = "setLocal"
     /\ (\E t \in tasks' \ tasks :
            t.op = "processMediaOffer" /\ t.at = "setRemote" /\ ~t.cancelled)
           => \E i \in ConnIds : Arrives(i, "media-offer", 1)]_vars

\* ------------------------------------------------------------------------
\* Scenario R: a page that is never reset. Its user starts, pastes the answer,
\* and, once media negotiation has begun, scans the QR code of another offer.
\* Promises settle and timers fire in any order; the network connects.
\* ------------------------------------------------------------------------

R_MediaGranted ==
  \E t \in tasks : t.at = "getUserMedia" /\
    BecomesWide(init([World EXCEPT !.tasks = @ \ {t}]))

R_Start == BecomesWide(startAsInitiator(World))

R_PasteAnswer == BecomesWide(processAnswer(World, In_answer))

R_Settles == \E t \in tasks : t.at \in NativeSteps /\ BecomesWide(Resumed(World, t))

R_Timeout == \E t \in tasks : t.at \in {"delay", "gather"} /\ BecomesWide(Resumed(World, t))

R_Connected ==
  \E i \in ConnIds :
    /\ conns[i].kind = "data"
    /\ Live(i)
    /\ CanBecome(conns[i], "connected")
    /\ BecomesWide(onconnectionstatechange(oniceconnectionstatechange(
                     [World EXCEPT !.conns[i].cs = "connected"])))

R_ChannelOpens ==
  \E i \in ConnIds :
    /\ conns[i].kind = "data"
    /\ Live(i)
    /\ conns[i].cs = "connected"
    /\ conns[i].dc = "connecting"
    /\ BecomesWide([World EXCEPT !.conns[i].dc = "open"])

R_ScanOffer ==
  /\ svc.mediaPc # 0
  /\ BecomesWide(processQRCode(World, In_offerUrl, "offer"))

NextR ==
  \/ R_MediaGranted
  \/ R_Start
  \/ R_PasteAnswer
  \/ R_Settles
  \/ R_Timeout
  \/ R_Connected
  \/ R_ChannelOpens
  \/ R_ScanOffer

SpecR == Init /\ [][NextR]_vars

\* C13: when the control connection fails the store's connectionState
\* becomes 'failed' with an error, and a 'failed' connectionState changes only
\* by reset() or closeConnection()
C13_FailedIsSticky ==
  [][/\ (svc.pc # 0 /\ conns[svc.pc].cs # "failed" /\ conns'[svc.pc].cs = "failed")
          => (state'.connectionState = "failed" /\ state'.error # "null")
     /\ (state.connectionState = "failed" /\ state'.connectionState # "failed")
          => (Reset \/ CloseConnection)]_vars

\* C14: when the control connection or the media connection fails while the
\* store is not yet 'failed', the store's connectionState becomes 'failed'
\* with an error
C14_FailureBroadcast ==
  [][\A i \in ConnIds :
       (/\ i \in {svc.pc, svc.mediaPc}
        /\ conns[i].cs # "failed"
        /\ conns'[i].cs = "failed"
        /\ state.connectionState # "failed")
         => (state'.connectionState = "failed" /\ state'.error # "null")]_vars

\* C15: for a description with a non-empty sdp the encoders succeed, parseOffer
\* of the offer URL (or of its fragment) and parseAnswer of the answer code
\* return the envelope with the same sdp, and decodeFromBase64 returns what
\* encodeToBase64 was given
C15_RoundTrip ==
  input.sdp # <<>> =>
    /\ output.op \in {"createOfferUrl", "createAnswerCode", "encodeToBase64"}
         => ~IsThrow(output.res)
    /\ (output.op = "parseOffer" /\ input.type = "offer")
         => output.res = [ok |-> SignalData(S_offer, input.sdp)]
    /\ (output.op = "parseAnswer" /\ input.type = "answer")
         => output.res = [ok |-> SignalData(S_answer, input.sdp)]
    /\ output.op = "decodeFromBase64"
         => output.res = [ok |-> SignalData(IF input.type = "offer" THEN S_offer ELSE S_answer,
                                            input.sdp)]

\* the type of the envelope a QR code holds
EnvelopeOf(d) ==
  IF d \in {In_offer, In_offerUrl} THEN "offer"
  ELSE IF d \in {In_answer, In_answerUrl} THEN "answer"
  ELSE "none"

\* C16: in every state, processQRCode(blob, K) calls setRemoteDescription
\* only when the decoded envelope's type is K; for an envelope of another
\* type, or none, it throws, and no connection is created or given a
\* description
C16_QRTypeValidation ==
  \A d \in QRInputs, K \in {"offer", "answer"} :
    LET r == processQRCode(World, d, K) IN
    /\ (\E t \in r.tasks \ tasks : t.at = "setRemote") => EnvelopeOf(d) = K
    /\ EnvelopeOf(d) # K => (Threw(r) /\ r.conns = conns /\ r.tasks = tasks)

\* an offer was scanned while init() was still waiting for the camera, and
\* its description is being applied
C16_Witness ==
  /\ \E t \in tasks : t.at = "getUserMedia"
  /\ state.role = "responder"
  /\ \E t \in tasks : t.op = "handleOfferFromHash" /\ t.at = "setRemote" /\ t.c = svc.pc

\* no operation is under way and no answer is expected: the page has no
\* role yet, or is the responder, or has applied an answer already
NoAnswerExpected ==
  /\ \A t \in tasks : t.op \notin {"startAsInitiator", "handleOfferFromHash", "processAnswer"}
  /\ \/ state.role = "null" /\ svc.pc = 0
     \/ state.role = "responder" /\ svc.role = "responder"
     \/ svc.pc # 0 /\ conns[svc.pc].remote

\* processAnswer(code) up to the settlement of setRemoteDescription
AnswerProcessed(code) ==
  LET Settled(r) == IF r.tasks \subseteq tasks THEN r
                    ELSE Resumed(r, CHOOSE t \in r.tasks \ tasks : TRUE)
  IN Settled(processAnswer(World, code))

\* C17: when no answer is expected processAnswer fails: it throws, the store
\* holds an error, isProcessing and isLoading are false, and no connection is
\* created or modified
C17_AnswerPrecondition ==
  NoAnswerExpected =>
    \A code \in PasteInputs :
      LET r == AnswerProcessed(code) IN
      /\ Threw(r)
      /\ r.state.error # "null"
      /\ ~r.state.isProcessing
      /\ ~r.state.isLoading
      /\ r.conns = conns

\* C18: once the data channel is open, every candidate the media connection
\* has gathered has been sent on it
C18_PendingCandidatesSent ==
  (/\ svc.dataChannel # 0
   /\ conns[svc.dataChannel].dc = "open"
   /\ svc.mediaPc # 0)
    => Sent(conns[svc.dataChannel], "ice-candidate") >= conns[svc.mediaPc].gathered

\* C19: startAsInitiator creates the control connection, and a media offer
\* is made, answered or sent, only while the store holds the local stream
C19_LocalMediaFirst ==
  [][/\ (StartAsInitiator /\ svc'.pc # svc.pc) => state.localStream
     /\ (\E t \in tasks' \ tasks : t.op \in {"sendMediaOffer", "processMediaOffer"})
          => state.localStream
     /\ (Sends("media-offer") \/ Sends("media-answer")) => state.localStream]_vars

\* what the page gives the user to copy, share or show as a QR code
Artefacts ==
  {state.offerUrl, state.answerCode} \cup
  (LET qr == generateQRForModal(state) IN IF IsThrow(qr) THEN {} ELSE {qr.ok})

\* C20: the offer URL, the answer code and the QR payload are made of the
\* control connection's description, never of the media connection's, and
\* nothing is sent through a media connection
C20_MediaPayloadExclusive ==
  /\ Artefacts \subseteq {Null, OfferUrlOf[LocalSdp].ok, AnswerCodeOf[LocalSdp].ok}
  /\ \A i \in ConnIds : conns[i].kind = "media" => conns[i].out = <<>>
  /\ \A i \in ConnIds : \A k \in 1..Len(conns[i].out) :
        conns[i].out[k] \in {"media-offer", "media-answer", "ice-candidate"}

\* the offer URL is on show and the media offer went out on the data channel
C20_Witness ==
  /\ state.offerUrl # Null
  /\ svc.mediaPc # 0
  /\ conns[svc.mediaPc].local = LocalMediaSdp
  /\ \E i \in ConnIds : conns[i].kind = "data" /\ Sent(conns[i], "media-offer") > 0

\* the offer URL or the answer code appears in the store in this step
Publishes ==
  \/ state'.offerUrl # Null /\ state'.offerUrl # state.offerUrl
  \/ state'.answerCode # Null /\ state'.answerCode # state.answerCode

\* C21: the offer URL or answer code is published only in a step by which
\* the control connection this.pc has finished gathering or a gathering wait
\* on it has timed out, whereas a media offer or media answer is sent in the
\* very step in which its setLocalDescription settles
C21_HybridOrdering ==
  [][/\ Publishes =>
          /\ svc.pc # 0
          /\ \/ conns[svc.pc].gather = "complete"
             \/ \E t \in tasks \ tasks' : t.at = "gather" /\ t.c = svc.pc
     /\ Sends("media-offer") =>
          \E t \in tasks \ tasks' : t.op = "sendMediaOffer" /\ t.at = "setLocal"
     /\ Sends("media-answer") =>
          \E t \in tasks \ tasks' : t.op = "processMediaOffer" /\ t.at = "setLocal"]_vars

\* the three negotiations of the controller
Negotiations == {"startAsInitiator", "handleOfferFromHash", "processAnswer"}

\* r is not a failure of a negotiation, or the store of r can retry
Retryable(r) ==
  (Threw(r) /\ r.last.op \in Negotiations) =>
    /\ ~r.state.isProcessing
    /\ ~r.state.isLoading
    /\ r.state.error = r.last.res

\* C22: in every state, whichever call or continuation of startAsInitiator,
\* handleOfferFromHash or processAnswer fails, it leaves isProcessing and
\* isLoading false and its message in error
C22_RecoverableFailures ==
  /\ Retryable(startAsInitiator(World))
  /\ \A code \in PasteInputs : Retryable(processAnswer(World, code))
  /\ \A h \in HashInputs : Retryable(handleOfferFromHash([World EXCEPT !.hash = h]))
  /\ \A d \in QRInputs, c \in {"offer", "answer"} : Retryable(processQRCode(World, d, c))
  /\ \A t \in tasks : Retryable(Resumed(World, t))

\* a negotiation has failed after its first await, while the role was taken
C22_Witness ==
  /\ state.error \in {"TypeError", "InvalidStateError", "InvalidModificationError"}
  /\ state.role # "null"
  /\ ~state.isProcessing
  /\ ~state.isLoading

\* ------------------------------------------------------------------------
\* lib/helpers.js getOptimalQRErrorCorrection, as QRCodeService.generateQRCode
\* calls it on the text of the QR code
\* ------------------------------------------------------------------------

\* the longest text given to the QR generator
MaxQRLength == 1600

\* a text of n characters
TextOfLength(n) == [i \in 1..n |-> 65]

\* a faulty variant: the two middle rows of the table are exchanged
getOptimalQRErrorCorrection_Swapped(data) ==
  LET length == Len(data) IN
  IF length < 500 THEN "H"
  ELSE IF length < 1000 THEN "M"
  ELSE IF length < 1500 THEN "Q"
  ELSE "L"

getOptimalQRErrorCorrection(data) ==
  LET length == Len(data) IN
  IF length < 500 THEN "H"
  ELSE IF length < 1000 THEN "Q"
  ELSE IF length < 1500 THEN "M"
  ELSE "L"

InitQR ==
  /\ state = InitialState
  /\ svc = InitialService
  /\ conns = [i \in ConnIds |-> FreeConn]
  /\ tasks = {}
  /\ hash = <<>>
  /\ input \in {[NoInput EXCEPT !.text = TextOfLength(n)] : n \in 0..MaxQRLength}
  /\ output = NoOutput
  /\ ui = InitialUI
  /\ media = InitialMedia

\* generateQRCode(data): const errorCorrection = getOptimalQRErrorCorrection(data)
GenerateQRCode ==
  /\ output.op = "none"
  /\ output' = [op |-> "getOptimalQRErrorCorrection",
                res |-> getOptimalQRErrorCorrection(input.text)]
  /\ UNCHANGED <<ui, media, state, svc, conns, tasks, hash, input>>

NextQR == GenerateQRCode

SpecQR == InitQR /\ [][NextQR]_vars

\* the level chosen for each length, computed once
LevelOf == [n \in 0..MaxQRLength |-> getOptimalQRErrorCorrection(TextOfLength(n))]

\* robustness of a level: H > Q > M > L
Robustness(level) ==
  CASE level = "H" -> 4 [] level = "Q" -> 3 [] level = "M" -> 2 [] level = "L" -> 1
    [] OTHER -> 0

\* C23: the level chosen for a text is 'H' below 500 characters, 'Q' from
\* 500 to 999, 'M' from 1000 to 1499 and 'L' from 1500, and no longer text
\* gets a more robust level
C23_MonotoneErrorCorrection ==
  output.op = "getOptimalQRErrorCorrection" =>
    LET a == Len(input.text) IN
    /\ a \in 0..499 => output.res = "H"
    /\ a \in 500..999 => output.res = "Q"
    /\ a \in 1000..1499 => output.res = "M"
    /\ a >= 1500 => output.res = "L"
    /\ \A b \in a..MaxQRLength : Robustness(output.res) >= Robustness(LevelOf[b])

\* the level of a text of exactly 1000 characters was chosen
C23_Witness ==
  /\ output.op = "getOptimalQRErrorCorrection"
  /\ Len(input.text) = 1000
  /\ output.res = "M"

\* the text decodes to an object of type 'offer' with a description
DecodesToOffer(text) ==
  LET data == decodeFromBase64(text) IN
  ~IsThrow(data) /\ isValidSignalData(data.ok, S_offer)

\* C24: getOfferFromHash() throws nothing; it returns null when location.hash
\* holds no fragment or one that does not decode to a valid offer, and the
\* decoded offer otherwise
C24_OfferFromHashTotal ==
  output.op = "getOfferFromHash" =>
    /\ ~IsThrow(output.res)
    /\ IF Len(hash) <= 1 \/ ~DecodesToOffer(Tail(hash))
       THEN output.res = JLit(S_null)
       ELSE output.res = decodeFromBase64(Tail(hash)).ok

\* the page was opened with an answer code as its fragment: null
C24_Witness ==
  /\ output.op = "getOfferFromHash"
  /\ input.type = "answer"
  /\ input.text # <<>>
  /\ hash = <<35>> \o input.text
  /\ output.res = JLit(S_null)

\* startAsInitiator() has resolved in r
StartedAsInitiator(r) == r.last = [op |-> "startAsInitiator", res |-> "ok"]

\* C25: whenever startAsInitiator() resolves, from the initial state or any
\* other, the store's role is 'initiator', offerUrl is not null, buttonState
\* is 'initiator-share' and isLoading is false
C25_InitiatorStartPostcondition ==
  \A t \in tasks :
    LET r == Resumed(World, t) IN
    StartedAsInitiator(r) =>
      /\ r.state.role = "initiator"
      /\ r.state.offerUrl # Null
      /\ r.state.buttonState = "initiator-share"
      /\ ~r.state.isLoading

\* startAsInitiator() was called in the initial state and has resolved, with
\* nothing else called meanwhile
C25_Witness ==
  /\ state = [InitialState EXCEPT !.role = "initiator",
                                  !.offerUrl = OfferUrlOf[LocalSdp].ok,
                                  !.buttonState = "initiator-share",
                                  !.isProcessing = TRUE]
  /\ svc.role = "initiator"
  /\ svc.pc # 0
  /\ conns[svc.pc].local = LocalSdp
  /\ \A t \in tasks : t.op = "init"

\* ------------------------------------------------------------------------
\* services/MediaService.js, controllers/UIController.js,
\* components/VideoGrid.js, store/actions.js: the mute flags and the layout
\* of the two videos
\* ------------------------------------------------------------------------

\* a faulty variant: without a stream the call does nothing
toggleAudio_NeedsStream(m, enabled) ==
  IF ~m.localStream THEN m
  ELSE [m EXCEPT !.micEnabled = enabled, !.audioTrack = enabled]

toggleAudio(m, enabled) ==
  LET m1 == [m EXCEPT !.micEnabled = enabled] IN
  IF m1.localStream THEN [m1 EXCEPT !.audioTrack = enabled] ELSE m1

toggleVideo(m, enabled) ==
  LET m1 == [m EXCEPT !.cameraEnabled = enabled] IN
  IF m1.localStream THEN [m1 EXCEPT !.videoTrack = enabled] ELSE m1

isAudioEnabled(m) == m.micEnabled
isVideoEnabled(m) == m.cameraEnabled

\* a faulty variant: the click goes back and forth between two layouts
handleVideoClick_TwoModes(u) ==
  IF u.videoMode = "split" THEN setVideoMode(u, "local-full")
  ELSE setVideoMode(u, "split")

\* UIController.handleVideoClick
handleVideoClick(u) ==
  LET currentMode == u.videoMode
      nextMode == IF currentMode = "split" THEN "local-full"
                  ELSE IF currentMode = "local-full" THEN "remote-full"
                  ELSE "split"
  IN setVideoMode(u, nextMode)

\* VideoGrid.handleVideoClick, with MediaController.getCurrentMode
getCurrentMode(u) == u.videoMode

VideoGrid_handleVideoClick(u) ==
  LET currentMode == getCurrentMode(u)
      nextMode == IF currentMode = "split" THEN "local-full"
                  ELSE IF currentMode = "local-full" THEN "remote-full"
                  ELSE "split"
  IN setVideoMode(u, nextMode)

\* Array.prototype.indexOf, from 0, -1 when absent
ModeIndexOf(modes, v) ==
  IF \E k \in 1..Len(modes) : modes[k] = v
  THEN (CHOOSE k \in 1..Len(modes) : modes[k] = v /\ \A j \in 1..(k - 1) : modes[j] # v) - 1
  ELSE -1

\* actions.toggleVideoMode
toggleVideoMode(u) ==
  LET modes == <<"split", "local-full", "remote-full">>
      currentIndex == ModeIndexOf(modes, u.videoMode)
      nextIndex == (currentIndex + 1) % Len(modes)
  IN setVideoMode(u, modes[nextIndex + 1])

InitUI == Init /\ hash = <<>>

HandleMicToggle ==
  LET newState == ~ui.micEnabled IN
  /\ media' = toggleAudio(media, newState)
  /\ ui' = setMicEnabled(ui, newState)
  /\ output' = [op |-> "handleMicToggle", res |-> newState]
  /\ UNCHANGED <<state, svc, conns, tasks, hash, input>>

HandleCameraToggle ==
  LET newState == ~ui.cameraEnabled IN
  /\ media' = toggleVideo(media, newState)
  /\ ui' = setCameraEnabled(ui, newState)
  /\ output' = [op |-> "handleCameraToggle", res |-> newState]
  /\ UNCHANGED <<state, svc, conns, tasks, hash, input>>

HandleVideoClick ==
  /\ ui' = handleVideoClick(ui)
  /\ output' = [op |-> "handleVideoClick", res |-> ui'.videoMode]
  /\ UNCHANGED <<state, svc, conns, tasks, hash, input, media>>

\* a click on the remote video, or on the local one unless it is 'no-click'
VideoGridClick ==
  /\ ui' = VideoGrid_handleVideoClick(ui)
  /\ output' = [op |-> "VideoGrid.handleVideoClick", res |-> "undefined"]
  /\ UNCHANGED <<state, svc, conns, tasks, hash, input, media>>

ToggleVideoMode ==
  /\ ui' = toggleVideoMode(ui)
  /\ output' = [op |-> "toggleVideoMode", res |-> "undefined"]
  /\ UNCHANGED <<state, svc, conns, tasks, hash, input, media>>

NextUI ==
  \/ GetUserMediaResolves
  \/ GetUserMediaRejects
  \/ HandleMicToggle
  \/ HandleCameraToggle
  \/ HandleVideoClick
  \/ VideoGridClick
  \/ ToggleVideoMode
  \/ Reset
  \/ CloseConnection

SpecUI == InitUI /\ [][NextUI]_vars

\* C26: in every state toggleAudio(e) makes isAudioEnabled() return e and
\* toggleVideo(e) makes isVideoEnabled() return e, with a local stream or
\* without one, and the store's micEnabled and cameraEnabled equal the flags
\* of the MediaService
C26_MuteFlags ==
  /\ \A e \in BOOLEAN :
       /\ isAudioEnabled(toggleAudio(media, e)) = e
       /\ isVideoEnabled(toggleVideo(media, e)) = e
  /\ ui.micEnabled = isAudioEnabled(media)
  /\ ui.cameraEnabled = isVideoEnabled(media)

\* the microphone was muted by handleMicToggle while there is no local stream
C26_Witness ==
  /\ output = [op |-> "handleMicToggle", res |-> FALSE]
  /\ ~media.localStream
  /\ ~ui.micEnabled
  /\ ~isAudioEnabled(media)

\* the three layouts
VideoModes == {"split", "local-full", "remote-full"}

\* C29: videoMode is one of the three layouts; a click takes split to
\* local-full, local-full to remote-full and remote-full to split, whether
\* UIController.handleVideoClick, VideoGrid.handleVideoClick or the action
\* toggleVideoMode handles it, and three clicks restore the layout
C29_VideoLayoutCycle ==
  /\ ui.videoMode \in VideoModes
  /\ handleVideoClick(ui).videoMode =
       (CASE ui.videoMode = "split" -> "local-full"
          [] ui.videoMode = "local-full" -> "remote-full"
          [] ui.videoMode = "remote-full" -> "split")
  /\ VideoGrid_handleVideoClick(ui) = handleVideoClick(ui)
  /\ toggleVideoMode(ui) = handleVideoClick(ui)
  /\ handleVideoClick(handleVideoClick(handleVideoClick(ui))) = ui
  /\ VideoGrid_handleVideoClick(VideoGrid_handleVideoClick(VideoGrid_handleVideoClick(ui))) = ui
  /\ toggleVideoMode(toggleVideoMode(toggleVideoMode(ui))) = ui

\* a click handled by UIController.handleVideoClick has put the remote video
\* in full view
C29_Witness ==
  /\ output = [op |-> "handleVideoClick", res |-> "remote-full"]
  /\ ui.videoMode = "remote-full"

\* a control connection is created in this step with a data channel of its
\* own (createDataChannel)
CreatesChannel ==
  \E i \in ConnIds :
    /\ conns[i].kind = "free"
    /\ conns'[i].kind = "data"
    /\ conns'[i].dc = "connecting"

\* C27: a control connection gets a data channel of its own only when it is
\* created under the role 'initiator', and the service of a responder holds
\* no channel or one that ondatachannel delivered (such a channel arrives
\* open; one that is still connecting was made by createDataChannel)
C27_ChannelOwnership ==
  /\ [][CreatesChannel => (svc'.role = "initiator" /\ state'.role = "initiator")]_vars
  /\ [](svc.role = "responder" =>
          (svc.dataChannel = 0 \/ conns[svc.dataChannel].dc # "connecting"))

\* C28: in every state processQRCode rejects an offer URL or a base64 offer
\* envelope scanned in context 'answer' with QR_WRONG_TYPE_ANSWER, a base64
\* answer envelope scanned in context 'offer' with QR_WRONG_TYPE_OFFER, and
\* an image in which no code was found with INVALID_QR in either context
C28_QRRejectionOutcomes ==
  /\ \A d \in {In_offerUrl, In_offer} :
       processQRCode(World, d, "answer").last.res = "QR_WRONG_TYPE_ANSWER"
  /\ processQRCode(World, In_answer, "offer").last.res = "QR_WRONG_TYPE_OFFER"
  /\ \A K \in {"offer", "answer"} :
       processQRCode(World, Null, K).last.res = "INVALID_QR"

\* C30: whenever startAsInitiator() resolves, isProcessing is false, and
\* processAnswer(answerCode) called next with a valid answer code is not
\* skipped: it calls setRemoteDescription on the control connection
C30_BusyFlagRelease ==
  \A t \in tasks :
    LET r == Resumed(World, t) IN
    StartedAsInitiator(r) =>
      /\ ~r.state.isProcessing
      /\ LET q == processAnswer(r, In_answer) IN
         q.blocked \/
         \E a \in q.tasks \ r.tasks :
           a.op = "processAnswer" /\ a.at = "setRemote" /\ a.c = r.svc.pc

\* C31: in every state, after reset() the controller still handles the
\* events of the service: 'data-connection-established' starts the wait
\* before media negotiation, 'media-offer-received' starts processMediaOffer
\* when there is a local stream, 'remote-track' makes the store 'connected'
\* and 'connection-failed' makes it 'failed', as on a fresh page
C31_SessionAfterReset ==
  LET r == controllerReset(World)
      e == OnDataConnectionEstablished(r)
      o == handleMediaOffer(r)
  IN /\ r.svc.listeners
     /\ e.blocked \/ \E t \in e.tasks \ r.tasks : t.op = "settle" /\ t.at = "delay"
     /\ r.state.localStream =>
          (o.blocked \/ \E t \in o.tasks \ r.tasks : t.op = "processMediaOffer")
     /\ OnRemoteTrack(r).state.connectionState = "connected"
     /\ OnConnectionFailed(r).state.connectionState = "failed"

\* the connections that were created and not closed
OpenConns(k) == {i \in ConnIds : conns[i].kind = k}

\* C32: every RTCPeerConnection that was created and is not closed is the
\* one the service references as pc or mediaPc, so at most one control and
\* one media connection are open
C32_NoLeakedConnections ==
  /\ \A i \in ConnIds :
       conns[i].kind \in {"data", "media"} => i \in {svc.pc, svc.mediaPc}
  /\ Cardinality(OpenConns("data")) <= 1
  /\ Cardinality(OpenConns("media")) <= 1

\* ------------------------------------------------------------------------
\* Scenario E: the page with a control connection whose state leaves
\* 'connected' for 'disconnected' and comes back
\* ------------------------------------------------------------------------

\* connectionState and iceConnectionState of a connected control connection
\* become 'disconnected', which no handler acts on, and 'connected' again:
\* both handlers run once more
ConnectionRecovers ==
  \E i \in ConnIds :
    /\ conns[i].kind = "data"
    /\ Live(i)
    /\ conns[i].cs = "connected"
    /\ Becomes(onconnectionstatechange(oniceconnectionstatechange(World)))

NextE ==
  \/ Next
  \/ ConnectionRecovers

SpecE == Init /\ [][NextE]_vars

\* the media negotiations of the session: a wait before startMediaNegotiation,
\* a sendMediaOffer under way, a media offer sent
MediaStarts ==
  Cardinality({t \in tasks : t.op \in {"settle", "sendMediaOffer"}})
    + SentAll("media-offer")

\* C33: the wait before startMediaNegotiation starts only in the step in
\* which connectionEstablished becomes true, the flag becomes false again
\* only by reset() or closeConnection(), and between two cleanups at most one
\* media negotiation is started and at most one media offer is sent, also
\* when the control connection becomes 'connected' again
C33_SingleMediaStart ==
  /\ [][(\E t \in tasks' \ tasks : t.op = "settle" /\ ~t.cancelled)
          => (~svc.connectionEstablished /\ svc'.connectionEstablished)]_vars
  /\ [][(svc.connectionEstablished /\ ~svc'.connectionEstablished)
          => (Reset \/ CloseConnection)]_vars
  /\ [](MediaStarts <= 1)

\* the media offer went out and the control connection, still 'connected',
\* can report 'connected' again
C33_Witness ==
  /\ svc.connectionEstablished
  /\ svc.pc # 0
  /\ conns[svc.pc].cs = "connected"
  /\ SentAll("media-offer") = 1
  /\ ENABLED ConnectionRecovers

\* ------------------------------------------------------------------------
\* Scenario S: the page with the two share buttons of the initiator
\* ------------------------------------------------------------------------

ShareOfferUrl == Becomes(shareOffer(World, "shareOfferUrl"))

ShareOfferQR == Becomes(shareOffer(World, "shareOfferQR"))

\* navigator.share or the clipboard write resolves: signaling.shareOfferUrl
\* returns true, shareQRDirect returns
ShareResolves == \E t \in tasks : t.at = "share" /\ Becomes(Resumed(World, t))

\* both fail: signaling.shareOfferUrl returns false, shareQRDirect throws
ShareRejects ==
  \E t \in tasks : t.at = "share" /\
    Becomes(Returned([World EXCEPT !.tasks = @ \ {t}], t.op, "Failed to share offer"))

NextS ==
  \/ Next
  \/ ShareOfferUrl
  \/ ShareOfferQR
  \/ ShareResolves
  \/ ShareRejects

SpecS == Init /\ [][NextS]_vars

\* C34: with buttonState 'initiator-share' or 'initiator-wait-answer' the
\* store's role is 'initiator' and offerUrl is not null; with buttonState
\* 'responder-share' the role is 'responder' and answerCode is not null
C34_UIRoleConsistency ==
  /\ state.buttonState \in {"initiator-share", "initiator-wait-answer"}
       => (state.role = "initiator" /\ state.offerUrl # Null)
  /\ state.buttonState = "responder-share"
       => (state.role = "responder" /\ state.answerCode # Null)

\* the messages channel.onmessage has nothing to do with: text that is not
\* JSON, a type it does not know, and an answer or a candidate for a media
\* connection that does not exist
Droppable(m) ==
  \/ m \in {"not-json", "unknown-type"}
  \/ m \in {"media-answer", "ice-candidate"} /\ svc.mediaPc = 0

\* C35: in every state, channel.onmessage run on such a message ends without
\* an exception leaving it, starts no operation (so 'media-connection-established'
\* is not emitted, then or later), and leaves pc, mediaPc, dataChannel, the
\* connections and the store as they were
C35_MessageRobustness ==
  \A m \in Messages, id \in CandIds :
    Droppable(m) =>
      LET r == onmessage(World, m, id) IN
        /\ ~r.blocked
        /\ ~Threw(r)
        /\ r.last # [op |-> "handleMediaAnswer", res |-> "ok"]
        /\ r.svc = svc
        /\ r.tasks = tasks
        /\ r.conns = conns
        /\ r.state = state

\* the channel is open for messages and there is no media connection
C35_Witness ==
  /\ svc.mediaPc = 0
  /\ svc.dataChannel # 0
  /\ conns[svc.dataChannel].dc = "open"
  /\ ENABLED MessageArrives
  /\ \A m \in {"not-json", "unknown-type", "media-answer", "ice-candidate"} :
       Droppable(m)

\* C36: in every state, when processQRCode(blob, 'offer') ends with an
\* exception in the step of the call, the hash is the one before the call
C36_RejectedQRKeepsHash ==
  \A decoded \in QRInputs :
    LET r == processQRCode(World, decoded, "offer") IN
      (~r.blocked /\ Threw(r)) => r.hash = hash

====
